---- MODULE Spec2Model ----
(***************************************************************************)
(* Smart_Home_Agent_FP: the Tree-of-Thoughts engine of Arch/tot.py, the    *)
(* Home Assistant collaborator of core/ha.py it drives, the direct         *)
(* (tool-agent) architectures of Arch/standard.py and Arch/reflexion.py,   *)
(* and the step loop of Arch/react.py.                                     *)
(*                                                                         *)
(* Texts are strings, handled character by character as the Python code    *)
(* does.  A missing / None / empty Python string is the empty string ""    *)
(* wherever the code only tests its truthiness.  Scores are the code's     *)
(* floats multiplied by 20, so that 0.5, 4.0, 3.0, 0.25 and 0.6 become the *)
(* integers 10, 80, 60, 5 and 12.                                          *)
(***************************************************************************)
EXTENDS Integers, Sequences, FiniteSets, TLC

VARIABLES
    user_text,        \* call_agent argument
    beam_size,        \* call_agent argument
    k_per_node,       \* call_agent argument
    max_depth,        \* call_agent argument
    all_states,       \* the entity states held by the Home Assistant backend
    planner_menu,     \* the replies the language model may give in this run
    arch,             \* which architecture's call_agent is running
    intent,           \* tot.py:246
    frontier,         \* tot.py:261
    candidates_next,  \* tot.py:265
    scored,           \* tot.py:456-457, <<score, node>> pairs of the last ranking
    depth,            \* loop variable of tot.py:263
    node_idx,         \* loop variable of tot.py:267 / tot.py:462 (1-based)
    pc,               \* position inside call_agent
    result,           \* the returned string ("" until call_agent returns)
    error,            \* the exception that left call_agent ("" if none)
    ha_log,           \* the requests received by the backend, in order
    answer_node,      \* history: the branch the returned answer was produced from
    answer_kind,      \* history: which return statement produced the answer
    planner_calls,    \* history: number of planner calls made so far
    only_timeouts,    \* history: every planner call so far has timed out
    out1,             \* reflexion.py:92, the first attempt's answer
    react,            \* the local variables of react.py's call_agent, as a record
    heap,             \* the list and dict objects of one round of tot.py, by address
    workers,          \* the planner calls of tot.py:180-195: their threads and futures
    cot               \* the local variables of cot.py's call_agent, as a record

vars == <<user_text, beam_size, k_per_node, max_depth, all_states, planner_menu,
          arch, intent, frontier, candidates_next, scored, depth, node_idx, pc,
          result, error, ha_log, answer_node, answer_kind, planner_calls,
          only_timeouts, out1, react, heap, workers, cot>>

----------------------------------------------------------------------------
(* Bounds of the model *)

MaxDepth == 2          \* largest max_depth passed to call_agent
MaxBeam == 2           \* largest beam_size passed to call_agent
MaxK == 2              \* largest k_per_node passed to call_agent
MaxFailAt == 2         \* a backend failure hits the 1st..MaxFailAt-th request of one expansion
MaxAgentTools == 2     \* tool calls one tool-agent run may make (standard / reflexion)
MaxPieces == 5         \* pieces a text given to the sanitizer is made of
MaxWords == 2          \* pieces a text given to the intent classifier is made of
MaxCands == 3          \* candidates given to the entity resolver

----------------------------------------------------------------------------
(* Characters and strings *)

LowerOf ==
    ("A" :> "a") @@ ("B" :> "b") @@ ("C" :> "c") @@ ("D" :> "d") @@ ("E" :> "e") @@
    ("F" :> "f") @@ ("G" :> "g") @@ ("H" :> "h") @@ ("I" :> "i") @@ ("J" :> "j") @@
    ("K" :> "k") @@ ("L" :> "l") @@ ("M" :> "m") @@ ("N" :> "n") @@ ("O" :> "o") @@
    ("P" :> "p") @@ ("Q" :> "q") @@ ("R" :> "r") @@ ("S" :> "s") @@ ("T" :> "t") @@
    ("U" :> "u") @@ ("V" :> "v") @@ ("W" :> "w") @@ ("X" :> "x") @@ ("Y" :> "y") @@
    ("Z" :> "z")

\* the character class [a-z0-9_] of the token regex
TokChars ==
    {"a","b","c","d","e","f","g","h","i","j","k","l","m","n","o","p","q","r","s","t",
     "u","v","w","x","y","z","0","1","2","3","4","5","6","7","8","9","_"}

\* the character class \s
SpaceChars == {" ", "\t", "\n", "\r"}

\* the characters of entity names in code-point order (for name.casefold() keys)
OrdStr == " '-.0123456789_abcdefghijklmnopqrstuvwxyz"

CharAt(s, i) == SubSeq(s, i, i)

\* a local variable: v is computed once and Body is evaluated with it
With(v, Body(_)) == Body(v)

\* str.lower()
RECURSIVE lower(_)
lower(s) ==
    IF Len(s) = 0 THEN ""
    ELSE IF Len(s) = 1 THEN (IF s \in DOMAIN LowerOf THEN LowerOf[s] ELSE s)
    ELSE LET h == Len(s) \div 2
         IN  lower(SubSeq(s, 1, h)) \o lower(SubSeq(s, h + 1, Len(s)))

\* Python's  p in t  on strings
Contains(t, p) == \E i \in 1..(Len(t) - Len(p) + 1) : SubSeq(t, i, i + Len(p) - 1) = p

\* str.startswith
StartsWith(s, p) == Len(p) <= Len(s) /\ SubSeq(s, 1, Len(p)) = p

\* index of the first occurrence of p in s at or after position i, 0 if none
MinOrZero(hits) == IF hits = {} THEN 0 ELSE CHOOSE j \in hits : \A h \in hits : j <= h
FindFrom(s, p, i) ==
    MinOrZero({j \in i..(Len(s) - Len(p) + 1) : SubSeq(s, j, j + Len(p) - 1) = p})

\* str.strip()
RECURSIVE lstrip(_)
lstrip(s) == IF Len(s) > 0 /\ CharAt(s, 1) \in SpaceChars THEN lstrip(Tail(s)) ELSE s
RECURSIVE rstrip(_)
rstrip(s) ==
    IF Len(s) > 0 /\ CharAt(s, Len(s)) \in SpaceChars
    THEN rstrip(SubSeq(s, 1, Len(s) - 1)) ELSE s
strip(s) == lstrip(rstrip(s))

\* str.rstrip(".")
RECURSIVE rstrip_dot(_)
rstrip_dot(s) ==
    IF Len(s) > 0 /\ CharAt(s, Len(s)) = "."
    THEN rstrip_dot(SubSeq(s, 1, Len(s) - 1)) ELSE s

\* str.replace(a, b) for a single character a
RECURSIVE replace_char(_, _, _)
replace_char(s, a, b) ==
    IF Len(s) = 0 THEN ""
    ELSE (IF CharAt(s, 1) = a THEN b ELSE CharAt(s, 1)) \o replace_char(Tail(s), a, b)

\* the part after the last "." :  s.split('.')[-1]
RECURSIVE after_last_dot(_)
after_last_dot(s) ==
    With(FindFrom(s, ".", 1),
         LAMBDA i : IF i = 0 THEN s ELSE after_last_dot(SubSeq(s, i + 1, Len(s))))

UpperOf == [c \in {LowerOf[u] : u \in DOMAIN LowerOf} |->
               CHOOSE u \in DOMAIN LowerOf : LowerOf[u] = c]

\* str.title(): first letter of every run of letters in upper case, the rest lower
RECURSIVE title_from(_, _)
title_from(s, prev_cased) ==
    IF Len(s) = 0 THEN ""
    ELSE LET c == CharAt(s, 1)
             lc == IF c \in DOMAIN LowerOf THEN LowerOf[c] ELSE c
             cased == lc \in DOMAIN UpperOf
         IN  (IF cased /\ ~prev_cased THEN UpperOf[lc] ELSE lc) \o title_from(Tail(s), cased)
title(s) == title_from(s, FALSE)

\* str(n) for a natural number
Digits == "0123456789"
RECURSIVE int_str(_)
int_str(n) == IF n < 10 THEN CharAt(Digits, n + 1)
              ELSE int_str(n \div 10) \o CharAt(Digits, (n % 10) + 1)

\* lexicographic  a < b  on the code points of OrdStr
CharOrd(c) == FindFrom(OrdStr, c, 1)
RECURSIVE StrLess(_, _)
StrLess(a, b) ==
    IF Len(b) = 0 THEN FALSE
    ELSE IF Len(a) = 0 THEN TRUE
    ELSE IF CharAt(a, 1) = CharAt(b, 1) THEN StrLess(Tail(a), Tail(b))
    ELSE CharOrd(CharAt(a, 1)) < CharOrd(CharAt(b, 1))

\* " ".join(seq) and "\n".join(seq)
RECURSIVE join(_, _)
join(sep, seq) ==
    IF seq = <<>> THEN ""
    ELSE IF Len(seq) = 1 THEN seq[1]
    ELSE seq[1] \o sep \o join(sep, Tail(seq))

\* list.sort(key=..., reverse=True) on <<key, value>> pairs: stable, descending
RECURSIVE InsertDesc(_, _)
InsertDesc(sorted, p) ==
    IF sorted = <<>> THEN <<p>>
    ELSE IF Head(sorted)[1] >= p[1] THEN <<Head(sorted)>> \o InsertDesc(Tail(sorted), p)
    ELSE <<p>> \o sorted
RECURSIVE SortDescFrom(_, _)
SortDescFrom(pairs, acc) ==
    IF pairs = <<>> THEN acc ELSE SortDescFrom(Tail(pairs), InsertDesc(acc, Head(pairs)))
\* a pool that is left in arrival order
SortDescSkipped(pairs) == pairs

SortDesc(pairs) == SortDescFrom(pairs, <<>>)

\* list.sort(key=...) on <<key, value>> pairs: stable, ascending
RECURSIVE InsertAsc(_, _)
InsertAsc(sorted, p) ==
    IF sorted = <<>> THEN <<p>>
    ELSE IF Head(sorted)[1] <= p[1] THEN <<Head(sorted)>> \o InsertAsc(Tail(sorted), p)
    ELSE <<p>> \o sorted
RECURSIVE SortAscFrom(_, _)
SortAscFrom(pairs, acc) ==
    IF pairs = <<>> THEN acc ELSE SortAscFrom(Tail(pairs), InsertAsc(acc, Head(pairs)))
SortAsc(pairs) == SortAscFrom(pairs, <<>>)

Take(seq, n) == SubSeq(seq, 1, IF n < Len(seq) THEN (IF n < 0 THEN 0 ELSE n) ELSE Len(seq))

Max2(a, b) == IF a >= b THEN a ELSE b

----------------------------------------------------------------------------
(* Pure helpers of Arch/tot.py *)

\* re.findall(r"[a-z0-9_]+", u): the maximal runs of token characters, in order
RECURSIVE findall_tokens(_, _, _)
findall_tokens(u, i, cur) ==
    IF i > Len(u) THEN (IF cur = "" THEN <<>> ELSE <<cur>>)
    ELSE LET c == CharAt(u, i)
         IN  IF c \in TokChars THEN findall_tokens(u, i + 1, cur \o c)
             ELSE (IF cur = "" THEN <<>> ELSE <<cur>>) \o findall_tokens(u, i + 1, "")

RECURSIVE count_parts(_, _)
count_parts(parts, t) ==
    IF parts = <<>> THEN 0
    ELSE (IF Len(Head(parts)) >= 2 /\ Contains(t, Head(parts)) THEN 1 ELSE 0)
         + count_parts(Tail(parts), t)

_score_match(u_text, text) ==
    count_parts(findall_tokens(lower(u_text), 1, ""), lower(text))

_expected_on_off(u_text) ==
    With(lower(u_text), LAMBDA t :
        IF Contains(t, "turn on") \/ Contains(t, "switch on") \/ Contains(t, "open") THEN "on"
        ELSE IF Contains(t, "turn off") \/ Contains(t, "switch off") \/ Contains(t, "close")
        THEN "off"
        ELSE "")

action_tokens ==
    <<"turn on", "turn off", "switch on", "switch off", "open", "close", "lock", "unlock",
      "set ", "increase", "decrease", "toggle", "dim", "brighten">>

\* a classifier that knows only the on/off phrases
_infer_intent_on_off(u_text) ==
    IF _expected_on_off(u_text) # "" THEN "action" ELSE "status"

_infer_intent(u_text) ==
    With(lower(u_text), LAMBDA t :
        IF \E i \in 1..Len(action_tokens) : Contains(t, action_tokens[i])
        THEN "action" ELSE "status")

AllDomains == <<"light", "switch", "fan", "lock", "cover", "climate", "media_player", "sensor">>

\* the domains named in the lower-cased user text t
DomainHits(t) == SelectSeq(AllDomains, LAMBDA dom : Contains(t, dom))

_likely_domains(u_text, intent_) ==
    With(DomainHits(lower(u_text)), LAMBDA hits :
        IF hits # <<>> THEN hits
        ELSE IF intent_ = "action" /\ _expected_on_off(u_text) # ""
        THEN <<"light", "switch", "fan">>
        ELSE AllDomains)

\* the ranking shared by _best_entity_from_candidates and _summarize_entities_for_obs
RankEntities(u_text, ents) ==
    SortDesc([i \in 1..Len(ents) |->
                <<_score_match(u_text, ents[i].entity_id \o " " \o ents[i].name), ents[i]>>])

\* a resolver that takes the first candidate of the list
_best_entity_first(u_text, candidates) ==
    IF candidates = <<>> THEN "" ELSE candidates[1].entity_id

_best_entity_from_candidates(u_text, candidates) ==
    IF candidates = <<>> THEN ""
    ELSE With(RankEntities(u_text, candidates),
              LAMBDA ranked : IF ranked[1][1] > 0 THEN ranked[1][2].entity_id ELSE "")

----------------------------------------------------------------------------
(* Observations: the dictionaries stored in a node's last_obs *)

NoObs == [kind |-> "none", candidates |-> <<>>, details |-> <<>>, count |-> 0,
          domain |-> "", service |-> "", entity_id |-> "", text |-> ""]

CandidatesObs(cands, n) == [NoObs EXCEPT !.kind = "candidates", !.candidates = cands, !.count = n]
DetailsObs(dets, n) == [NoObs EXCEPT !.kind = "details", !.details = dets, !.count = n]
ServiceObs(d, s, e) == [NoObs EXCEPT !.kind = "service", !.domain = d, !.service = s, !.entity_id = e]
AskObs(msg) == [NoObs EXCEPT !.kind = "ask", !.text = msg]

\* the values of <<key, value>> pairs
Values(pairs) == [i \in 1..Len(pairs) |-> pairs[i][2]]

_summarize_entities_for_obs(entities, u_text, top_k) ==
    CandidatesObs(Values(Take(RankEntities(u_text, entities), top_k)), Len(entities))

_summarize_details_for_obs(details, top_k) ==
    LET top == Take(details, top_k)
    IN  DetailsObs([i \in 1..Len(top) |->
                      [entity_id |-> top[i].entity_id, state |-> top[i].state,
                       name |-> top[i].friendly_name]],
                   Len(details))

\* a quoted string, or the null word when the value is None (q is the quote character)
Quoted(q, s) == q \o s \o q
QuotedOrNull(q, s, null_word) == IF s = "" THEN null_word ELSE Quoted(q, s)

RECURSIVE RenderCandidates(_, _)
RenderCandidates(q, cs) ==
    IF cs = <<>> THEN ""
    ELSE "{" \o Quoted(q, "entity_id") \o ": " \o Quoted(q, Head(cs).entity_id) \o ", "
         \o Quoted(q, "name") \o ": " \o Quoted(q, Head(cs).name) \o "}"
         \o (IF Len(cs) > 1 THEN ", " ELSE "") \o RenderCandidates(q, Tail(cs))

RECURSIVE RenderDetails(_, _, _)
RenderDetails(q, ds, null_word) ==
    IF ds = <<>> THEN ""
    ELSE "{" \o Quoted(q, "entity_id") \o ": " \o Quoted(q, Head(ds).entity_id) \o ", "
         \o Quoted(q, "state") \o ": " \o Quoted(q, Head(ds).state) \o ", "
         \o Quoted(q, "name") \o ": " \o QuotedOrNull(q, Head(ds).name, null_word) \o "}"
         \o (IF Len(ds) > 1 THEN ", " ELSE "") \o RenderDetails(q, Tail(ds), null_word)

\* the text of an observation dictionary, keys in insertion order
RenderObs(obs, q, true_word, null_word) ==
    CASE obs.kind = "candidates" ->
            "{" \o Quoted(q, "candidates") \o ": [" \o RenderCandidates(q, obs.candidates)
            \o "], " \o Quoted(q, "count") \o ": " \o int_str(obs.count) \o "}"
      [] obs.kind = "details" ->
            "{" \o Quoted(q, "details") \o ": [" \o RenderDetails(q, obs.details, null_word)
            \o "], " \o Quoted(q, "count") \o ": " \o int_str(obs.count) \o "}"
      [] obs.kind = "service" ->
            "{" \o Quoted(q, "service_done") \o ": " \o true_word \o ", "
            \o Quoted(q, "domain") \o ": " \o QuotedOrNull(q, obs.domain, null_word) \o ", "
            \o Quoted(q, "service") \o ": " \o QuotedOrNull(q, obs.service, null_word) \o ", "
            \o Quoted(q, "entity_id") \o ": " \o QuotedOrNull(q, obs.entity_id, null_word) \o "}"
      [] obs.kind = "ask" ->
            "{" \o Quoted(q, "message") \o ": " \o Quoted(q, "ask_user") \o ", "
            \o Quoted(q, "text") \o ": " \o Quoted(q, obs.text) \o "}"
      [] OTHER -> "{}"

\* json.dumps(obs, ensure_ascii=False)
json_dumps(obs) == IF obs.kind = "none" THEN "null" ELSE RenderObs(obs, "\"", "true", "null")

\* str(obs) of a dictionary (str(best.get("last_obs") or {}))
py_str(obs) == RenderObs(obs, "'", "True", "None")

\* repr() of a string, or of None (a missing domain)
py_repr(s) == IF s = "" THEN "None" ELSE "'" \o s \o "'"

\* str() of a list of strings
RECURSIVE py_list_items(_)
py_list_items(ids) ==
    IF ids = <<>> THEN ""
    ELSE "'" \o Head(ids) \o "'" \o (IF Len(ids) > 1 THEN ", " ELSE "")
         \o py_list_items(Tail(ids))
py_list(ids) == "[" \o py_list_items(ids) \o "]"

----------------------------------------------------------------------------
(* The Home Assistant collaborator, core/ha.py *)

\* an entity state as /api/states returns it; friendly_name "" when the attribute is absent
Entity(eid, fname, st) == [entity_id |-> eid, friendly_name |-> fname, state |-> st]

\* the requests the backend receives; ok = FALSE when the request failed
ListOp(d, ok) == [op |-> "list", domain |-> d, service |-> "", entity_id |-> "",
                  entity_ids |-> <<>>, ok |-> ok]
DetailsOp(ids, ok) == [op |-> "details", domain |-> "", service |-> "", entity_id |-> "",
                       entity_ids |-> ids, ok |-> ok]
ServiceOp(d, s, e, ok) == [op |-> "service", domain |-> d, service |-> s, entity_id |-> e,
                           entity_ids |-> <<>>, ok |-> ok]

\* first occurrence of every entity_id, in order (the seen set of ha.py:33-48)
RECURSIVE DedupeById(_, _)
DedupeById(ents, seen) ==
    IF ents = <<>> THEN <<>>
    ELSE IF Head(ents).entity_id \in seen THEN DedupeById(Tail(ents), seen)
    ELSE <<Head(ents)>> \o DedupeById(Tail(ents), seen \cup {Head(ents).entity_id})

\* sort_key of ha.py:52-55 as a strict order on <<rank, name.casefold()>>
KeyLess(a, b) == a[1] < b[1] \/ (a[1] = b[1] /\ StrLess(a[2], b[2]))

RECURSIVE InsertByKey(_, _)
InsertByKey(sorted, p) ==
    IF sorted = <<>> THEN <<p>>
    ELSE IF KeyLess(p[1], Head(sorted)[1]) THEN <<p>> \o sorted
    ELSE <<Head(sorted)>> \o InsertByKey(Tail(sorted), p)
RECURSIVE SortByKeyFrom(_, _)
SortByKeyFrom(pairs, acc) ==
    IF pairs = <<>> THEN acc ELSE SortByKeyFrom(Tail(pairs), InsertByKey(acc, Head(pairs)))

\* ha.py:27-30 and 41: is the entity of the wanted prefixes (all of them for d = "")?
wanted_prefixes(d, eid) == d = "" \/ StartsWith(eid, d \o ".") \/ StartsWith(eid, "switch.")

\* ha.py:44-47: one result
compact(state) ==
    [entity_id |-> state.entity_id,
     name |-> IF state.friendly_name # "" THEN state.friendly_name ELSE state.entity_id]

\* ha.py:52-58 (without a domain every rank is the same and the name decides)
sort_key(d, item) ==
    << IF d = "" THEN 0
       ELSE IF StartsWith(item.entity_id, d \o ".") THEN 0
       ELSE IF StartsWith(item.entity_id, "switch.") THEN 1 ELSE 2,
       lower(item.name) >>

\* ha.py:32-58 for the normalised domain d
results_for(states, d) ==
    With(DedupeById(SelectSeq(states, LAMBDA st : st.entity_id # ""
                                                   /\ wanted_prefixes(d, st.entity_id)), {}),
         LAMBDA kept :
            Values(SortByKeyFrom([i \in 1..Len(kept) |->
                                     <<sort_key(d, compact(kept[i])), compact(kept[i])>>],
                                 <<>>)))

get_entities_by_domain(states, domain) ==
    results_for(states, rstrip_dot(lower(strip(domain))))

bulk_threshold == 15

\* the wanted list of ha.py:179: non-blank strings, duplicates removed, order kept
RECURSIVE DedupeStr(_, _)
DedupeStr(ids, seen) ==
    IF ids = <<>> THEN <<>>
    ELSE IF strip(Head(ids)) = "" \/ Head(ids) \in seen THEN DedupeStr(Tail(ids), seen)
    ELSE <<Head(ids)>> \o DedupeStr(Tail(ids), seen \cup {Head(ids)})

\* get_entities_details when every request is answered: found entities in input order
get_entities_details(states, entity_ids) ==
    LET wanted == DedupeStr(entity_ids, {})
        found(eid) == SelectSeq(states, LAMBDA s : s.entity_id = eid)
        RECURSIVE pack(_)
        pack(ids) == IF ids = <<>> THEN <<>>
                     ELSE (IF found(Head(ids)) # <<>> THEN <<found(Head(ids))[1]>> ELSE <<>>)
                          \o pack(Tail(ids))
    IN  pack(wanted)

\* does a failed HTTP request inside get_entities_details leave it by an exception?
\* (ha.py:205-209 raises on the bulk path, ha.py:225-232 swallows on the individual path)
details_failure_raises(entity_ids) == Len(DedupeStr(entity_ids, {})) >= bulk_threshold

----------------------------------------------------------------------------
(* Planner output: the candidate steps of the prompt of tot.py:156-171 *)

\* valid = FALSE stands for an array element that is not an object with a "tool" key
BaseItem == [valid |-> TRUE, tool |-> "", domain |-> "", service |-> "", entity_id |-> "",
             entity_ids |-> <<>>, final |-> "", message |-> ""]
ListItem(d) == [BaseItem EXCEPT !.tool = "get_entities_by_domain_tool", !.domain = d]
DetailsItem(ids) == [BaseItem EXCEPT !.tool = "get_entities_details_tool", !.entity_ids = ids]
ServiceItem(d, s, e) == [BaseItem EXCEPT !.tool = "service_call_tool", !.domain = d,
                                         !.service = s, !.entity_id = e]
FinishItem(txt) == [BaseItem EXCEPT !.tool = "finish", !.final = txt]
AskItem(msg) == [BaseItem EXCEPT !.tool = "ask_user", !.message = msg]
OtherToolItem == [BaseItem EXCEPT !.tool = "list_domain_services_tool"]
JunkItem == [BaseItem EXCEPT !.valid = FALSE]

\* what the language model answers to one prompt:
\*   timeout     no answer within the per-call timeout
\*   prose       text without any {...} or [...]
\*   broken      JSON-looking text that does not parse, even with trailing commas removed
\*   array       a JSON array;   array_comma  the same with a trailing comma
\*   object      a single JSON object
Reply(kind, items) == [kind |-> kind, items |-> items]
TimeoutReply == Reply("timeout", <<>>)
ProseReply == Reply("prose", <<>>)
BrokenReply == Reply("broken", <<>>)

TIMEOUT_SENTINEL == Reply("sentinel", <<>>)

\* tot.py:180-192: the reply text, or the "__TIMEOUT__" sentinel
_planner_call_with_timeout(reply) ==
    IF reply.kind = "timeout" THEN TIMEOUT_SENTINEL ELSE reply

\* tot.py:41-57: the parsed value: a list, a dict, or None
_extract_json(raw) ==
    CASE raw.kind \in {"array", "array_comma"} -> [type |-> "list", items |-> raw.items]
      [] raw.kind = "object" -> [type |-> "dict", items |-> raw.items]
      [] OTHER -> [type |-> "none", items |-> <<>>]

----------------------------------------------------------------------------
(* Output sanitizer, tot.py:25-30 *)

\* re.sub(open[\s\S]*?close, "", s): ls is the text the pattern is matched on
RECURSIVE remove_blocks(_, _, _, _)
remove_blocks(s, ls, open, close) ==
    With(FindFrom(ls, open, 1), LAMBDA i :
        IF i = 0 THEN s
        ELSE With(FindFrom(ls, close, i + Len(open)), LAMBDA j :
                IF j = 0 THEN s
                ELSE SubSeq(s, 1, i - 1)
                     \o remove_blocks(SubSeq(s, j + Len(close), Len(s)),
                                      SubSeq(ls, j + Len(close), Len(ls)), open, close)))

\* re.sub(r"\s+", " ", s)
RECURSIVE collapse_ws(_, _)
collapse_ws(s, in_ws) ==
    IF Len(s) = 0 THEN ""
    ELSE IF CharAt(s, 1) \in SpaceChars
    THEN (IF in_ws THEN "" ELSE " ") \o collapse_ws(Tail(s), TRUE)
    ELSE CharAt(s, 1) \o collapse_ws(Tail(s), FALSE)

\* the code-fence marker (three backquotes in the source; a TLA+ string cannot
\* hold a backquote, so the model's texts write the marker as three tildes)
FENCE == "~~~"

_sanitize_output(text) ==
    With(remove_blocks(text, lower(text), "<think>", "</think>"),
         LAMBDA no_think :
            strip(collapse_ws(remove_blocks(no_think, no_think, FENCE, FENCE), FALSE)))

----------------------------------------------------------------------------
(* Guards and scoring, tot.py:198-221 *)

GUARD_ACTION == "For ACTION, you must call service_call_tool before finishing."
GUARD_STATUS == "For STATUS, you must call get_entities_details_tool before finishing."

\* a guard that lets every finish through
_finish_guard_open(intent_, did_details, did_service, plan_item) == ""

\* the rejection reason, "" for None
_finish_guard(intent_, did_details, did_service, plan_item) ==
    IF plan_item.tool # "finish" THEN ""
    ELSE IF intent_ = "action" /\ ~did_service THEN GUARD_ACTION
    ELSE IF intent_ = "status" /\ ~did_details THEN GUARD_STATUS
    ELSE ""

\* tot.py:219: node.get("last_obs", {}) is None when the key holds None, and
\* None.get raises AttributeError; the test is only reached for intent action
_score_node_raises(intent_, node) ==
    intent_ = "action" /\ node.last_obs.kind = "none"

\* the score times 20
_score_node(intent_, node, u_text) ==
    LET transcript_str == join(" ", node.transcript)
        obs_str == json_dumps(node.last_obs)
    IN  10 * _score_match(u_text, transcript_str \o " " \o obs_str)
        + (IF intent_ = "action" /\ node.did_service THEN 80 ELSE 0)
        + (IF intent_ = "status" /\ node.did_details THEN 60 ELSE 0)
        - 5 * node.depth
        + (IF intent_ = "action" /\ node.last_obs.candidates # <<>> THEN 12 ELSE 0)

----------------------------------------------------------------------------
(* Nodes of the search, tot.py:259-261 and tot.py:321-327 *)

Node(tr, obs, ds, dd, d) ==
    [transcript |-> tr, last_obs |-> obs, did_service |-> ds, did_details |-> dd, depth |-> d]

root == Node(<<>>, NoObs, FALSE, FALSE, 0)

\* a guard-note child that keeps the depth of the record it copies
GuardChildSameDepth(node, guard, d) ==
    [node EXCEPT !.transcript = Append(node.transcript, "GUARD:" \o guard)]

\* tot.py:302-304: the guard-note child, a copy of the parent record
GuardChild(node, guard, d) ==
    [node EXCEPT !.transcript = Append(node.transcript, "GUARD:" \o guard), !.depth = d]

\* a fresh child that starts with both flags down
NewChildNoFlags(node, d) == Node(node.transcript, NoObs, FALSE, FALSE, d)

\* tot.py:321-327: the fresh child of an executed candidate
NewChild(node, d) == Node(node.transcript, NoObs, node.did_service, node.did_details, d)

\* a filter that forgets which items it has seen
RECURSIVE FilterPlansNoSeen(_, _, _, _, _)
FilterPlansNoSeen(items, seen, node, d, acc) ==
    IF items = <<>> THEN acc
    ELSE IF ~Head(items).valid
    THEN FilterPlansNoSeen(Tail(items), seen, node, d, acc)
    ELSE IF _finish_guard(intent, node.did_details, node.did_service, Head(items)) # ""
    THEN FilterPlansNoSeen(Tail(items), seen, node, d,
                           [acc EXCEPT !.guarded = Append(@, GuardChild(node,
                               _finish_guard(intent, node.did_details, node.did_service,
                                             Head(items)), d))])
    ELSE FilterPlansNoSeen(Tail(items), seen, node, d,
                           [acc EXCEPT !.filtered = Append(@, Head(items))])

\* tot.py:290-307: drop invalid and duplicate items, turn guarded finishes into notes
RECURSIVE FilterPlans(_, _, _, _, _)
FilterPlans(items, seen, node, d, acc) ==
    IF items = <<>> THEN acc
    ELSE LET item == Head(items)
             guard == _finish_guard(intent, node.did_details, node.did_service, item)
         IN  IF ~item.valid \/ item \in seen
             THEN FilterPlans(Tail(items), seen, node, d, acc)
             ELSE IF guard # ""
             THEN FilterPlans(Tail(items), seen \cup {item}, node, d,
                              [acc EXCEPT !.guarded = Append(@, GuardChild(node, guard, d))])
             ELSE FilterPlans(Tail(items), seen \cup {item}, node, d,
                              [acc EXCEPT !.filtered = Append(@, item)])

\* tot.py:313-315
priority(tool) ==
    CASE tool = "service_call_tool" -> 0
      [] tool = "get_entities_details_tool" -> 1
      [] tool = "get_entities_by_domain_tool" -> 2
      [] tool = "finish" -> 3
      [] tool = "ask_user" -> 4
      [] OTHER -> 5

\* candidates left in the order the planner gave them
SortByPlannerOrder(items) == items

SortByPriority(items) ==
    Values(SortAsc([i \in 1..Len(items) |-> <<priority(items[i].tool), items[i]>>]))

----------------------------------------------------------------------------
(* The actor of tot.py:318-449.  An accumulator acc carries, through the     *)
(* candidates of one node, the pool candidates_next, the backend log, the    *)
(* number of backend calls made in this expansion, and how the loop left:    *)
(* status "run" (still looping), "return" (a finish returned text) or        *)
(* "raise" (a backend call raised).  fail_at is the number of the backend    *)
(* call of this expansion that fails, 0 for none.                            *)

Acc(pool, log) == [pool |-> pool, log |-> log, reqs |-> 0, status |-> "run", text |-> ""]

\* one call of a core.ha function that raises when the request fails
BackendCall(acc, op_ok, op_failed, fail_at) ==
    LET fails == acc.reqs + 1 = fail_at
    IN  [acc EXCEPT !.log = Append(@, IF fails THEN op_failed ELSE op_ok),
                    !.reqs = @ + 1,
                    !.status = IF fails THEN "raise" ELSE @]

\* the loops of tot.py:347-354 and tot.py:379-385: the first domain with entities
RECURSIVE TryDomains(_, _, _)
TryDomains(acc, domains, fail_at) ==
    IF domains = <<>> THEN [acc |-> acc, domain |-> "", ents |-> <<>>]
    ELSE With(BackendCall(acc, ListOp(Head(domains), TRUE), ListOp(Head(domains), FALSE),
                          fail_at),
              LAMBDA acc1 :
                 IF acc1.status = "raise" THEN [acc |-> acc1, domain |-> "", ents |-> <<>>]
                 ELSE With(get_entities_by_domain(all_states, Head(domains)), LAMBDA tmp :
                         IF tmp # <<>> THEN [acc |-> acc1, domain |-> Head(domains), ents |-> tmp]
                         ELSE TryDomains(acc1, Tail(domains), fail_at)))

AddChild(acc, child) == [acc EXCEPT !.pool = Append(@, child)]

DEFAULT_ASK == "Which device exactly?"

\* an ask-user step that answers with its question at once
AskStepReturns(acc, node, item, d) ==
    [acc EXCEPT !.status = "return",
                !.text = IF item.message # "" THEN item.message ELSE DEFAULT_ASK]

\* tot.py:329-335
AskStep(acc, node, item, d) ==
    LET msg == IF item.message # "" THEN item.message ELSE DEFAULT_ASK
        child == [NewChild(node, d) EXCEPT !.last_obs = AskObs(msg),
                                           !.transcript = Append(@, "ASK:" \o msg)]
    IN  AddChild(acc, child)

\* a finish step that returns the planner's text as it came
FinishStepRaw(acc, item) == [acc EXCEPT !.status = "return", !.text = item.final]

\* tot.py:337-340
FinishStep(acc, item) ==
    LET final == _sanitize_output(item.final)
    IN  [acc EXCEPT !.status = "return", !.text = IF final # "" THEN final ELSE "Done."]

\* tot.py:342-361
\* tot.py:356-360: the child of a listing
ListChild(acc, node, domain, obs, d) ==
    AddChild(acc, [NewChild(node, d) EXCEPT
                     !.last_obs = obs,
                     !.transcript = @ \o <<"ACTION:get_entities_by_domain_tool('" \o domain \o "')",
                                           "OBS:" \o json_dumps(obs)>>])

ListStep(acc, node, item, d, fail_at) ==
    With(TryDomains(acc,
                    IF item.domain # "" THEN <<item.domain>>
                    ELSE _likely_domains(user_text, intent),
                    fail_at),
         LAMBDA probe :
            IF probe.acc.status = "raise" THEN probe.acc
            ELSE ListChild(probe.acc, node,
                           IF probe.domain # "" THEN probe.domain ELSE item.domain,
                           _summarize_entities_for_obs(probe.ents, user_text, 6), d))

\* tot.py:363-372
\* tot.py:366-371: the child of a details read
\* a details child whose flag says whether a state was read
DetailsChildIfRead(acc, node, entity_ids, obs, d) ==
    AddChild(acc, [NewChild(node, d) EXCEPT
                     !.last_obs = obs,
                     !.did_details = (obs.details # <<>>),
                     !.transcript = @ \o <<"ACTION:get_entities_details_tool("
                                             \o py_list(entity_ids) \o ")",
                                           "OBS:" \o json_dumps(obs)>>])

DetailsChild(acc, node, entity_ids, obs, d) ==
    AddChild(acc, [NewChild(node, d) EXCEPT
                     !.last_obs = obs,
                     !.did_details = TRUE,
                     !.transcript = @ \o <<"ACTION:get_entities_details_tool("
                                             \o py_list(entity_ids) \o ")",
                                           "OBS:" \o json_dumps(obs)>>])

\* the call get_entities_details(entity_ids): requests tells whether it sends any
\* request (ha.py:180), fails whether the failing request is among them
DetailsCall(acc, node, entity_ids, requests, fails, d) ==
    IF fails /\ details_failure_raises(entity_ids)
    THEN [acc EXCEPT !.log = Append(@, DetailsOp(entity_ids, FALSE)),
                     !.reqs = @ + 1,
                     !.status = "raise"]
    ELSE DetailsChild([acc EXCEPT !.log = Append(@, DetailsOp(entity_ids, ~fails)),
                                  !.reqs = IF requests THEN @ + 1 ELSE @],
                      node, entity_ids,
                      _summarize_details_for_obs(
                          IF fails THEN <<>> ELSE get_entities_details(all_states, entity_ids),
                          3),
                      d)

DetailsStep(acc, node, item, d, fail_at) ==
    DetailsCall(acc, node, item.entity_ids,
                DedupeStr(item.entity_ids, {}) # <<>>,
                DedupeStr(item.entity_ids, {}) # <<>> /\ acc.reqs + 1 = fail_at,
                d)

CandidateIds(cands) == {cands[i].entity_id : i \in 1..Len(cands)}

\* tot.py:377-385: 1) the domain: the planner's, or the first likely domain that has
\* entities, whose listing then is the child's observation
ServiceDomain(acc, item, fail_at) ==
    IF item.domain = ""
    THEN TryDomains(acc, _likely_domains(user_text, intent), fail_at)
    ELSE [acc |-> acc, domain |-> item.domain, ents |-> <<>>]

\* tot.py:391-403: the candidates to resolve against: the child's listing, else the
\* parent's, else a fresh listing of the domain
ServiceCandidates(probe, child_obs, node, fail_at) ==
    IF probe.acc.status = "raise"
    THEN [acc |-> probe.acc, domain |-> probe.domain, candidates |-> <<>>]
    ELSE IF child_obs.candidates # <<>>
    THEN [acc |-> probe.acc, domain |-> probe.domain, candidates |-> child_obs.candidates]
    ELSE IF node.last_obs.candidates # <<>>
    THEN [acc |-> probe.acc, domain |-> probe.domain, candidates |-> node.last_obs.candidates]
    ELSE [acc |-> BackendCall(probe.acc, ListOp(probe.domain, TRUE),
                              ListOp(probe.domain, FALSE), fail_at),
          domain |-> probe.domain,
          candidates |-> _summarize_entities_for_obs(
                             get_entities_by_domain(all_states, probe.domain),
                             user_text, 6).candidates]

\* an entity id that is resolved only when the planner gave none
ResolveEntityTrusting(requested_eid, candidates) ==
    IF requested_eid = ""
    THEN _best_entity_from_candidates(user_text, candidates)
    ELSE requested_eid

\* tot.py:387-388 and 405-408: 2) the entity id, "" for None
ResolveEntity(requested_eid, candidates) ==
    IF requested_eid = "" \/ requested_eid \notin CandidateIds(candidates)
    THEN _best_entity_from_candidates(user_text, candidates)
    ELSE requested_eid

\* tot.py:411-420: unresolved, list the domain again instead of acting
ServiceListing(acc, node, domain, obs, d) ==
    AddChild(acc, [NewChild(node, d) EXCEPT
                     !.last_obs = obs,
                     !.transcript = @ \o <<"GUARD:entity_id unclear; listing candidates first.",
                                           "ACTION:get_entities_by_domain_tool("
                                             \o py_repr(domain) \o ")",
                                           "OBS:" \o json_dumps(obs)>>])

\* tot.py:422-428: 3) the service: the planner's, or the polarity of the user text
InferService(item_service, exp) ==
    IF item_service # "" THEN item_service
    ELSE IF exp = "on" THEN "turn_on"
    ELSE IF exp = "off" THEN "turn_off"
    ELSE ""

SERVICE_ASK == "Which device and action exactly?"

\* tot.py:439-447: the child of an executed service call
ServiceChild(acc, node, obs, d) ==
    AddChild(acc, [NewChild(node, d) EXCEPT
                     !.last_obs = obs,
                     !.did_service = TRUE,
                     !.transcript = @ \o <<"ACTION:service_call_tool(" \o obs.domain \o ","
                                             \o obs.service \o "," \o obs.entity_id \o ")",
                                           "OBS:" \o json_dumps(obs)>>])

\* tot.py:430-447: ask when the domain or the service is missing, else execute
ServiceExecute(acc, node, domain, service, resolved_eid, d, fail_at) ==
    IF domain = "" \/ service = ""
    THEN AddChild(acc, [NewChild(node, d) EXCEPT
                          !.last_obs = AskObs(SERVICE_ASK),
                          !.transcript = Append(@, "ASK:" \o SERVICE_ASK)])
    ELSE IF acc.reqs + 1 = fail_at
    THEN BackendCall(acc, ServiceOp(domain, service, resolved_eid, TRUE),
                     ServiceOp(domain, service, resolved_eid, FALSE), fail_at)
    ELSE ServiceChild(BackendCall(acc, ServiceOp(domain, service, resolved_eid, TRUE),
                                  ServiceOp(domain, service, resolved_eid, FALSE), fail_at),
                      node, ServiceObs(domain, service, resolved_eid), d)

\* tot.py:410-447: what is done with the resolved entity id
ServiceResolved(found, resolved_eid, node, item, d, fail_at) ==
    IF found.acc.status = "raise" THEN found.acc
    ELSE IF resolved_eid # ""
    THEN ServiceExecute(found.acc, node, found.domain,
                        InferService(item.service, _expected_on_off(user_text)),
                        resolved_eid, d, fail_at)
    ELSE IF found.acc.reqs + 1 = fail_at
    THEN BackendCall(found.acc, ListOp(found.domain, TRUE), ListOp(found.domain, FALSE), fail_at)
    ELSE ServiceListing(BackendCall(found.acc, ListOp(found.domain, TRUE),
                                    ListOp(found.domain, FALSE), fail_at),
                        node, found.domain,
                        _summarize_entities_for_obs(
                            get_entities_by_domain(all_states, found.domain), user_text, 6),
                        d)

\* tot.py:405-409: from the candidates to the resolved entity id
ServiceFound(found, node, item, d, fail_at) ==
    ServiceResolved(found, ResolveEntity(item.entity_id, found.candidates), node, item, d, fail_at)

\* tot.py:386-404: from the domain probe to the candidates
ServiceProbed(probe, node, item, d, fail_at) ==
    ServiceFound(ServiceCandidates(probe,
                                   IF item.domain = "" /\ probe.domain # ""
                                   THEN _summarize_entities_for_obs(probe.ents, user_text, 6)
                                   ELSE NoObs,
                                   node, fail_at),
                 node, item, d, fail_at)

\* a service step that passes the planner's arguments on as they are
ServiceStepUnresolved(acc, node, item, d, fail_at) ==
    ServiceExecute(acc, node, item.domain, item.service, item.entity_id, d, fail_at)

\* tot.py:374-447
ServiceStep(acc, node, item, d, fail_at) ==
    ServiceProbed(ServiceDomain(acc, item, fail_at), node, item, d, fail_at)

\* one iteration of the loop of tot.py:318
ActStep(acc, node, item, d, fail_at) ==
    CASE item.tool = "ask_user" -> AskStep(acc, node, item, d)
      [] item.tool = "finish" -> FinishStep(acc, item)
      [] item.tool = "get_entities_by_domain_tool" -> ListStep(acc, node, item, d, fail_at)
      [] item.tool = "get_entities_details_tool" -> DetailsStep(acc, node, item, d, fail_at)
      [] item.tool = "service_call_tool" -> ServiceStep(acc, node, item, d, fail_at)
      [] OTHER -> acc

\* an actor that leaves the loop after the first backend request of the node
RECURSIVE ActorOneCall(_, _, _, _, _)
ActorOneCall(acc, node, items, d, fail_at) ==
    IF items = <<>> \/ acc.status # "run" \/ acc.reqs > 0 THEN acc
    ELSE ActorOneCall(ActStep(acc, node, Head(items), d, fail_at), node, Tail(items), d, fail_at)

RECURSIVE Actor(_, _, _, _, _)
Actor(acc, node, items, d, fail_at) ==
    IF items = <<>> \/ acc.status # "run" THEN acc
    ELSE Actor(ActStep(acc, node, Head(items), d, fail_at), node, Tail(items), d, fail_at)

\* plans that put the clarification of a timeout in the place of a reply without JSON
PlansOfOrAsk(raw) ==
    IF _extract_json(raw).type \in {"list", "dict"} /\ _extract_json(raw).items # <<>>
    THEN _extract_json(raw).items
    ELSE <<AskItem(DEFAULT_ASK)>>

\* tot.py:277-287: the plans of one planner reply
PlansOf(raw) ==
    IF raw = TIMEOUT_SENTINEL THEN <<AskItem(DEFAULT_ASK)>>
    ELSE IF _extract_json(raw).type \in {"list", "dict"} THEN _extract_json(raw).items
    ELSE <<>>

\* tot.py:268-449: everything one frontier node does with one planner reply
Expand(node, reply, d, pool, log, fail_at) ==
    With(FilterPlans(Take(PlansOf(_planner_call_with_timeout(reply)), k_per_node), {}, node, d,
                     [guarded |-> <<>>, filtered |-> <<>>]),
         LAMBDA fp :
            Actor(Acc(pool \o fp.guarded, log), node,
                  Take(SortByPriority(fp.filtered), k_per_node), d, fail_at))

----------------------------------------------------------------------------
(* call_agent of Arch/tot.py as a state machine.  pc is the position:        *)
(*   "expand"    inside the node loop of tot.py:267, before a planner call   *)
(*   "rank"      after the node loop, at tot.py:451                          *)
(*   "probe"     inside the finish-probe loop of tot.py:462                  *)
(*   "fallback"  after the depth loop, at tot.py:485                         *)
(*   "returned"  call_agent returned result                                  *)
(*   "raised"    call_agent was left by the exception error                  *)

NOT_SURE == "I'm not sure yet-please specify the device."   \* tot.py:500

NoNode == Node(<<>>, NoObs, FALSE, FALSE, -1)

Return(text, node, kind) ==
    /\ pc' = "returned"
    /\ result' = text
    /\ answer_node' = node
    /\ answer_kind' = kind
    /\ error' = error

Raise(exc) ==
    /\ pc' = "raised"
    /\ error' = exc
    /\ UNCHANGED <<result, answer_node, answer_kind>>

Params == <<user_text, beam_size, k_per_node, max_depth, all_states, planner_menu, arch, intent>>

\* tot.py:267-449: one iteration of the node loop
ExpandNode ==
    /\ arch = "tot"
    /\ pc = "expand"
    /\ \E reply \in planner_menu, fail_at \in 0..MaxFailAt :
         \E acc \in {Expand(frontier[node_idx], reply, depth, candidates_next, ha_log, fail_at)} :
             /\ planner_calls' = planner_calls + 1
             /\ only_timeouts' = (only_timeouts /\ reply.kind = "timeout")
             /\ ha_log' = acc.log
             /\ IF acc.status = "return"
                THEN /\ Return(acc.text, frontier[node_idx], "finish")
                     /\ UNCHANGED <<candidates_next, node_idx>>
                ELSE IF acc.status = "raise"
                THEN /\ Raise("RequestException")
                     /\ UNCHANGED <<candidates_next, node_idx>>
                ELSE /\ candidates_next' = acc.pool
                     /\ IF node_idx < Len(frontier)
                        THEN node_idx' = node_idx + 1 /\ pc' = pc
                        ELSE node_idx' = 1 /\ pc' = "rank"
                     /\ UNCHANGED <<result, error, answer_node, answer_kind>>
    /\ UNCHANGED <<frontier, scored, depth>>
    /\ UNCHANGED Params
    /\ UNCHANGED <<out1, react, heap, workers, cot>>

\* tot.py:451-458: stop when the round produced nothing, else score, sort and prune
RankAndPrune ==
    /\ arch = "tot"
    /\ pc = "rank"
    /\ IF candidates_next = <<>>
       THEN /\ pc' = "fallback"
            /\ UNCHANGED <<frontier, scored, result, error, answer_node, answer_kind>>
       ELSE IF \E i \in 1..Len(candidates_next) : _score_node_raises(intent, candidates_next[i])
       THEN /\ Raise("AttributeError")
            /\ UNCHANGED <<frontier, scored>>
       ELSE \E ranked \in {SortDesc([i \in 1..Len(candidates_next) |->
                                        <<_score_node(intent, candidates_next[i], user_text),
                                          candidates_next[i]>>])} :
                /\ scored' = ranked
                /\ frontier' = Values(Take(ranked, Max2(1, beam_size)))
                /\ pc' = "probe"
                /\ UNCHANGED <<result, error, answer_node, answer_kind>>
    /\ node_idx' = 1
    /\ UNCHANGED <<candidates_next, depth, ha_log, planner_calls, only_timeouts>>
    /\ UNCHANGED Params
    /\ UNCHANGED <<out1, react, heap, workers, cot>>

\* the end of one iteration of the probe loop: next node, next round, or the fallback
ProbeAdvance ==
    /\ IF node_idx < Len(frontier)
       THEN /\ node_idx' = node_idx + 1
            /\ pc' = pc
            /\ UNCHANGED <<depth, candidates_next>>
       ELSE /\ node_idx' = 1
            /\ IF depth < max_depth
               THEN /\ depth' = depth + 1
                    /\ candidates_next' = <<>>
                    /\ pc' = "expand"
               ELSE /\ pc' = "fallback"
                    /\ UNCHANGED <<depth, candidates_next>>
    /\ UNCHANGED <<result, error, answer_node, answer_kind>>

\* tot.py:474-477: the text of an accepted finish probe, "" when not accepted
ProbeFinal(raw) ==
    With(_extract_json(raw), LAMBDA plan :
        IF plan.type = "dict" /\ plan.items[1].valid /\ plan.items[1].tool = "finish"
        THEN _sanitize_output(plan.items[1].final)
        ELSE "")

\* a probe loop that asks for every retained node
ProbeEligibleAll(node) == TRUE

\* tot.py:463: is this node asked whether it can finish now?
ProbeEligible(node) ==
    (intent = "action" /\ node.did_service) \/ (intent = "status" /\ node.did_details)

\* tot.py:462-481: one iteration of the finish-probe loop
FinishProbe ==
    /\ arch = "tot"
    /\ pc = "probe"
    /\ IF ProbeEligible(frontier[node_idx])
       THEN \E reply \in planner_menu :
              \E final \in {ProbeFinal(_planner_call_with_timeout(reply))} :
                  /\ planner_calls' = planner_calls + 1
                  /\ only_timeouts' = (only_timeouts /\ reply.kind = "timeout")
                  /\ IF final # ""
                     THEN /\ Return(final, frontier[node_idx], "probe")
                          /\ UNCHANGED <<node_idx, depth, candidates_next>>
                     ELSE ProbeAdvance
       ELSE /\ ProbeAdvance
            /\ UNCHANGED <<planner_calls, only_timeouts>>
    /\ UNCHANGED <<frontier, scored, ha_log>>
    /\ UNCHANGED Params
    /\ UNCHANGED <<out1, react, heap, workers, cot>>

\* max(frontier, key=...): the first node with the highest score
FirstBest(nodes, sc) ==
    nodes[CHOOSE i \in 1..Len(nodes) :
             /\ \A j \in 1..Len(nodes) : sc[i] >= sc[j]
             /\ \A j \in 1..(i - 1) : sc[j] < sc[i]]

BestOf(nodes) ==
    FirstBest(nodes, [i \in 1..Len(nodes) |-> _score_node(intent, nodes[i], user_text)])

\* a fallback that knows only the generic sentence
ActionSentenceGeneric(obs) == "Action completed."

\* tot.py:487-491: the sentence for an action whose service call was made
ActionSentence(obs) ==
    IF Contains(py_str(obs), "turn_on")
    THEN title(replace_char(after_last_dot(_sanitize_output(
                   IF obs.entity_id # "" THEN obs.entity_id ELSE "Device")), "_", " "))
         \o " turned on."
    ELSE "Action completed."

\* tot.py:492-499: the sentence for a status whose details were read
StatusSentence(obs) ==
    IF obs.details # <<>> /\ lower(obs.details[1].state) # ""
    THEN (IF obs.details[1].name # "" THEN obs.details[1].name
          ELSE IF obs.details[1].entity_id # "" THEN obs.details[1].entity_id ELSE "Device")
         \o " is " \o lower(obs.details[1].state) \o "."
    ELSE "Status read."

\* tot.py:483-500
Fallback ==
    /\ arch = "tot"
    /\ pc = "fallback"
    /\ IF frontier = <<>>
       THEN Return(NOT_SURE, NoNode, "clarify")
       ELSE IF \E i \in 1..Len(frontier) : _score_node_raises(_infer_intent(user_text), frontier[i])
       THEN Raise("AttributeError")
       ELSE \E best \in {BestOf(frontier)} :
                IF _infer_intent(user_text) = "action" /\ best.did_service
                THEN Return(ActionSentence(best.last_obs), best, "fallback")
                ELSE IF _infer_intent(user_text) = "status" /\ best.did_details
                THEN Return(StatusSentence(best.last_obs), best, "fallback")
                ELSE Return(NOT_SURE, best, "clarify")
    /\ UNCHANGED <<frontier, candidates_next, scored, depth, node_idx, ha_log,
                   planner_calls, only_timeouts>>
    /\ UNCHANGED Params
    /\ UNCHANGED <<out1, react, heap, workers, cot>>

Next == ExpandNode \/ RankAndPrune \/ FinishProbe \/ Fallback

\* the state call_agent starts its depth loop in (tot.py:246-263)
InitToT(u_text, states, menu, beam, k, md) ==
    /\ user_text = u_text
    /\ all_states = states
    /\ planner_menu = menu
    /\ beam_size = beam
    /\ k_per_node = k
    /\ max_depth = md
    /\ arch = "tot"
    /\ intent = _infer_intent(u_text)
    /\ frontier = <<root>>
    /\ candidates_next = <<>>
    /\ scored = <<>>
    /\ depth = 1
    /\ node_idx = 1
    /\ pc = IF md >= 1 THEN "expand" ELSE "fallback"
    /\ result = ""
    /\ error = ""
    /\ ha_log = <<>>
    /\ answer_node = NoNode
    /\ answer_kind = ""
    /\ planner_calls = 0
    /\ only_timeouts = TRUE
    /\ out1 = ""

----------------------------------------------------------------------------
(* call_agent of Arch/react.py: one planner call and at most one tool per    *)
(* step.  Its local variables are the fields of the record react; pc is      *)
(*   "idle"      this run does not call react.py                             *)
(*   "step"      at the head of the loop of react.py:159                     *)
(*   "fallback"  after the loop, at react.py:235                             *)
(*   "returned"  call_agent returned result (kind tells which return)        *)
(*   "raised"    call_agent was left by the exception error                  *)

MAX_STEPS == 3    \* react.py:137

react_action_tokens ==
    <<"turn on", "turn off", "switch on", "switch off", "open", "close", "lock", "unlock",
      "set ", "increase", "decrease">>

\* react.py:51-54
react_infer_intent(u_text) ==
    With(lower(u_text), LAMBDA t :
        IF \E i \in 1..Len(react_action_tokens) : Contains(t, react_action_tokens[i])
        THEN "action" ELSE "status")

\* react.py:32-49: the pattern takes the text from the first "{" to the last "}".
\* A single object parses, and so does an array around one object (an element
\* that is not an object, and a trailing comma, stay outside the braces); from
\* the first to the last brace of an array of several objects nothing parses.
react_extract_json(raw) ==
    IF raw.kind \in {"array", "array_comma", "object"}
    THEN With(SelectSeq(raw.items, LAMBDA it : it.valid), LAMBDA objs :
            IF Len(objs) = 1 THEN [type |-> "dict", items |-> objs]
            ELSE [type |-> "none", items |-> <<>>])
    ELSE [type |-> "none", items |-> <<>>]

\* react.py:56-64
RECURSIVE count_candidate_parts(_, _, _)
count_candidate_parts(parts, name, entity_id) ==
    IF parts = <<>> THEN 0
    ELSE (IF Contains(name, Head(parts)) \/ Contains(entity_id, Head(parts)) THEN 2 ELSE 0)
         + count_candidate_parts(Tail(parts), name, entity_id)

_score_candidate(name, entity_id, u_text) ==
    count_candidate_parts(findall_tokens(lower(u_text), 1, ""), lower(name), lower(entity_id))
    + (IF Contains(entity_id, ".") THEN 1 ELSE 0)

\* react.py:66-75
react_summarize_entities_for_obs(entities, u_text, top_k) ==
    CandidatesObs(
        Values(Take(SortDesc([i \in 1..Len(entities) |->
                                 <<_score_candidate(entities[i].name, entities[i].entity_id, u_text),
                                   entities[i]>>]),
                    top_k)),
        Len(entities))

\* a guard that rejects no finish
_enforce_finish_open(intent_, did_details, did_service, plan) == ""

\* react.py:127-134
_enforce_finish(intent_, did_details, did_service, plan) ==
    IF plan.tool # "finish" THEN ""
    ELSE IF intent_ = "action" /\ ~did_service THEN GUARD_ACTION
    ELSE IF intent_ = "status" /\ ~did_details THEN GUARD_STATUS
    ELSE ""

STILL_THINKING == "Still thinking-please repeat with the exact device name."   \* react.py:170
WHICH_DEVICE == "Which device exactly? (name/room)"                            \* react.py:176, 232
NOT_CONFIRMED == "I couldn't confirm the action. Which device exactly?"        \* react.py:236
NOT_READ == "I couldn't read the state. Which device exactly?"                 \* react.py:238

\* react.py:154-157: the locals before the first step
ReactStart ==
    [pc |-> "step", step |-> 1, did_service |-> FALSE, did_details |-> FALSE,
     transcript |-> <<>>, last_obs |-> NoObs, result |-> "", kind |-> "", error |-> "",
     log |-> <<>>, planner_calls |-> 0]

ReactIdle == [ReactStart EXCEPT !.pc = "idle"]

\* no objects: the value of heap in the runs that do not look at object identity
HeapIdle ==
    [lists |-> <<>>, dicts |-> <<>>, parent |-> <<>>, frontier |-> <<>>, pool |-> <<>>,
     node |-> 1, child |-> 0, depth |-> 0]

\* no planner call: the value of workers in the runs that do not look at threads
WorkersIdle == [calls |-> <<>>, used |-> <<>>, done_order |-> <<>>, main |-> "submit", ops |-> 0]

\* cot.py:229-232: the locals of call_agent before the plan is made
CotStart ==
    [pc |-> "plan", steps |-> <<>>, final_hint |-> "", planned |-> FALSE, idx |-> 1,
     did_service |-> FALSE, did_details |-> FALSE, last_obs |-> NoObs, transcript |-> <<>>,
     result |-> "", error |-> "", log |-> <<>>, planner_calls |-> 0]

CotIdle == [CotStart EXCEPT !.pc = "idle"]

ReactReturn(r, text, kind) == [r EXCEPT !.pc = "returned", !.result = text, !.kind = kind]

ReactRaise(r, op) ==
    [r EXCEPT !.pc = "raised", !.error = "RequestException", !.log = Append(@, op)]

\* the end of one iteration of the loop of react.py:159
ReactNextStep(r) ==
    [r EXCEPT !.step = @ + 1, !.pc = IF r.step < MAX_STEPS THEN "step" ELSE "fallback"]

\* str() of a value that may be None
py_none(x) == IF x = "" THEN "None" ELSE x

\* react.py:197-204
ReactList(r, plan, fails) ==
    IF fails THEN ReactRaise(r, ListOp(plan.domain, FALSE))
    ELSE With(react_summarize_entities_for_obs(
                  get_entities_by_domain(all_states, plan.domain), user_text, 5),
              LAMBDA obs :
                 ReactNextStep([r EXCEPT
                    !.log = Append(@, ListOp(plan.domain, TRUE)),
                    !.last_obs = obs,
                    !.transcript = @ \o <<"ACTION:get_entities_by_domain_tool('"
                                            \o plan.domain \o "')",
                                          "OBS:" \o json_dumps(obs)>>]))

\* react.py:206-214; a failed request of a short id list is swallowed by ha.py:225-232
ReactDetails(r, plan, fails) ==
    IF fails /\ details_failure_raises(plan.entity_ids)
    THEN ReactRaise(r, DetailsOp(plan.entity_ids, FALSE))
    ELSE With(_summarize_details_for_obs(
                  IF fails THEN <<>> ELSE get_entities_details(all_states, plan.entity_ids), 3),
              LAMBDA obs :
                 ReactNextStep([r EXCEPT
                    !.log = Append(@, DetailsOp(plan.entity_ids, ~fails)),
                    !.last_obs = obs,
                    !.did_details = TRUE,
                    !.transcript = @ \o <<"ACTION:get_entities_details_tool("
                                            \o py_list(plan.entity_ids) \o ")",
                                          "OBS:" \o json_dumps(obs)>>]))

\* react.py:216-228: the planner's arguments go to the backend as they are
ReactService(r, plan, fails) ==
    IF fails THEN ReactRaise(r, ServiceOp(plan.domain, plan.service, plan.entity_id, FALSE))
    ELSE With(ServiceObs(plan.domain, plan.service, plan.entity_id), LAMBDA obs :
                 ReactNextStep([r EXCEPT
                    !.log = Append(@, ServiceOp(plan.domain, plan.service, plan.entity_id, TRUE)),
                    !.last_obs = obs,
                    !.did_service = TRUE,
                    !.transcript = @ \o <<"ACTION:service_call_tool(" \o py_none(plan.domain)
                                            \o "," \o py_none(plan.service) \o ","
                                            \o py_none(plan.entity_id) \o ")",
                                          "OBS:" \o json_dumps(obs)>>]))

\* react.py:185-232: what is done with a plan that passed the guard
ReactTool(r, plan, fails) ==
    CASE plan.tool = "ask_user" ->
            ReactReturn(r, _sanitize_output(IF plan.message # "" THEN plan.message
                                            ELSE DEFAULT_ASK), "ask")
      [] plan.tool = "finish" -> ReactReturn(r, _sanitize_output(plan.final), "finish")
      [] plan.tool = "get_entities_by_domain_tool" -> ReactList(r, plan, fails)
      [] plan.tool = "get_entities_details_tool" -> ReactDetails(r, plan, fails)
      [] plan.tool = "service_call_tool" -> ReactService(r, plan, fails)
      [] OTHER -> ReactReturn(r, WHICH_DEVICE, "unknown_tool")

\* react.py:178-183: a finish the guard rejects becomes a note and uses up the step
ReactGuarded(r, plan, guard_msg, fails) ==
    IF guard_msg # ""
    THEN ReactNextStep([r EXCEPT !.transcript = Append(@, "GUARD: " \o guard_msg)])
    ELSE ReactTool(r, plan, fails)

\* react.py:172-183
ReactPlan(r, parsed, fails) ==
    IF parsed.type # "dict" THEN ReactReturn(r, WHICH_DEVICE, "no_plan")
    ELSE ReactGuarded(r, parsed.items[1],
                      _enforce_finish(react_infer_intent(user_text), r.did_details,
                                      r.did_service, parsed.items[1]),
                      fails)

\* react.py:160-232: one iteration of the step loop
ReactIteration(r, reply, fails) ==
    IF reply.kind = "timeout" THEN ReactReturn(r, STILL_THINKING, "timeout")
    ELSE ReactPlan(r, react_extract_json(reply), fails)

ReactStep ==
    /\ react.pc = "step"
    /\ \E reply \in planner_menu, fails \in BOOLEAN :
         react' = ReactIteration([react EXCEPT !.planner_calls = @ + 1], reply, fails)
    /\ UNCHANGED <<frontier, candidates_next, scored, depth, node_idx, pc, result, error,
                   ha_log, answer_node, answer_kind, planner_calls, only_timeouts, out1, heap, workers, cot>>
    /\ UNCHANGED Params

\* react.py:234-239
ReactFallback ==
    /\ react.pc = "fallback"
    /\ react' = IF react_infer_intent(user_text) = "action" /\ ~react.did_service
                THEN ReactReturn(react, NOT_CONFIRMED, "fallback")
                ELSE IF react_infer_intent(user_text) = "status" /\ ~react.did_details
                THEN ReactReturn(react, NOT_READ, "fallback")
                ELSE ReactReturn(react, NOT_SURE, "fallback")
    /\ UNCHANGED <<frontier, candidates_next, scored, depth, node_idx, pc, result, error,
                   ha_log, answer_node, answer_kind, planner_calls, only_timeouts, out1, heap, workers, cot>>
    /\ UNCHANGED Params

----------------------------------------------------------------------------
(* The runs explored: user texts, homes and planner behaviours *)

U_KITCHEN == "turn on the kitchen lights"
U_DOOR == "is the front door locked"
U_IT == "turn it on"

KITCHEN_ID == "light.kitchen_lights"
DOOR_ID == "lock.front_door"

\* a home with the light and the lock of the end-to-end examples
HomeA == <<Entity(KITCHEN_ID, "Kitchen Lights", "off"), Entity(DOOR_ID, "Front Door", "locked")>>
\* a home whose only device shares no word with any of the user texts
HomeB == <<Entity("fan.desk", "Desk", "off")>>

ArrayReply(items) == Reply("array", items)
ArrayCommaReply(items) == Reply("array_comma", items)
ObjectReply(item) == Reply("object", <<item>>)

KITCHEN_DONE == "Kitchen Lights turned on."
DOOR_LOCKED == "Front Door is locked."

\* a planner that wants to finish at once, or acts on the named light
MenuFinishFirst ==
    { ObjectReply(FinishItem(KITCHEN_DONE)),
      ArrayReply(<<FinishItem("All set."), ServiceItem("light", "turn_on", KITCHEN_ID)>>),
      ArrayReply(<<ServiceItem("light", "", "")>>) }

\* a planner that reads states, lists, or wants to finish
MenuRead ==
    { ObjectReply(FinishItem(DOOR_LOCKED)),
      ArrayReply(<<FinishItem("  "), DetailsItem(<<DOOR_ID>>), ListItem("")>>),
      ArrayReply(<<DetailsItem(<<>>)>>) }

\* a planner that proposes service calls with parts left out or unknown
MenuLoose ==
    { ArrayReply(<<ServiceItem("", "", "")>>),
      ArrayReply(<<ServiceItem("fan", "", "fan.ceiling"), ServiceItem("light", "toggle", KITCHEN_ID)>>),
      ArrayCommaReply(<<JunkItem, AskItem("Which room?"), AskItem("Which room?")>>) }

\* a planner that never produces a usable plan
MenuSilent ==
    { TimeoutReply, ProseReply, BrokenReply }

\* a planner that always times out
MenuTimeout == { TimeoutReply }

\* a planner for the status example: read the lock, then finish
MenuDoor ==
    { ArrayReply(<<DetailsItem(<<DOOR_ID>>)>>),
      ObjectReply(FinishItem(DOOR_LOCKED)),
      ArrayReply(<<>>) }

\* a planner for the action example: call the service for the light, id given or not
MenuKitchen ==
    { ArrayReply(<<ServiceItem("light", "turn_on", KITCHEN_ID)>>),
      ArrayReply(<<ServiceItem("", "", "")>>),
      ObjectReply(FinishItem("<think>the light is on now</think>Kitchen  Lights turned on.")),
      ProseReply }

\* a request that names many rooms, in a home with a light in every one of them
U_ROOMS == "switch on the attic, bedroom, garage, hallway, office and patio lights"
ATTIC_ID == "light.attic"

HomeRooms ==
    <<Entity(ATTIC_ID, "Attic Lights", "off"), Entity("light.bedroom", "Bedroom Lights", "off"),
      Entity("light.garage", "Garage Lights", "off"), Entity("light.hallway", "Hallway Lights", "off"),
      Entity("light.office", "Office Lights", "off"), Entity("light.patio", "Patio Lights", "off")>>

\* a planner that acts on the first light named and also proposes to list the lights
MenuRooms ==
    { ArrayReply(<<ServiceItem("light", "turn_on", ATTIC_ID), ListItem("light")>>),
      ObjectReply(FinishItem("Attic Lights switched on.")) }

\* a planner that asks the user, alone or next to a listing, or does not answer in time
MenuAsk ==
    { ArrayReply(<<AskItem("Which lamp?"), ListItem("light")>>),
      ObjectReply(AskItem("")),
      TimeoutReply }

\* a planner that proposes two service calls at once, or only wants to finish
MenuTwo ==
    { ArrayReply(<<ServiceItem("light", "turn_on", KITCHEN_ID),
                   ServiceItem("light", "toggle", KITCHEN_ID)>>),
      ObjectReply(FinishItem("  ")),
      ArrayReply(<<FinishItem("<THINK>both</THINK> Both  done."), FinishItem("Second.")>>) }

\* a planner that names an entity id the home does not hold, after a listing or not
WRONG_ID == "light.kitchen"

MenuWrongId ==
    { ArrayReply(<<ServiceItem("light", "turn_on", WRONG_ID)>>),
      ArrayReply(<<ListItem("light")>>),
      ObjectReply(FinishItem(KITCHEN_DONE)) }

\* a planner that puts the finish, or a question, before the work
MenuOrder ==
    { ArrayReply(<<FinishItem("All set."), ServiceItem("light", "turn_on", KITCHEN_ID)>>),
      ArrayReply(<<AskItem("Which one?"), FinishItem("All set.")>>),
      ArrayReply(<<ListItem("light"), ServiceItem("light", "turn_on", KITCHEN_ID)>>) }

\* a request that holds none of the action words
U_STATE == "what is the state of the front door"

\* a planner that reads no state: no entity id, or one the home does not hold
BACK_DOOR_ID == "lock.back_door"

MenuBlind ==
    { ArrayReply(<<DetailsItem(<<>>)>>),
      ArrayReply(<<DetailsItem(<<BACK_DOOR_ID>>)>>),
      ObjectReply(FinishItem(DOOR_LOCKED)),
      ProseReply }

\* a request to switch a light off, and a planner that calls the service for it
U_OFF == "turn off the kitchen lights"

MenuOff ==
    { ArrayReply(<<ServiceItem("light", "turn_off", KITCHEN_ID)>>),
      ProseReply }

\* the planner of MenuTwo when some of its replies come out garbled or empty
MenuGarbled == MenuTwo \cup {BrokenReply, ProseReply, ArrayReply(<<>>)}

\* a planner that repeats itself, names a tool the actor does not know, or
\* sends items that are no steps
MenuRepeat ==
    { ArrayReply(<<ListItem("light"), ListItem("light"), AskItem("Which one?")>>),
      ArrayReply(<<OtherToolItem, JunkItem, ListItem("light")>>),
      ArrayReply(<<FinishItem("Done"), FinishItem("Done"), ListItem("")>>) }

\* a request for a device that is a switch, in a home without lights, and a
\* planner that leaves domain, service and entity to the controller
U_KETTLE == "turn on the kettle"
KETTLE_ID == "switch.kettle"
HomeSwitch == <<Entity(KETTLE_ID, "Kettle", "off"), Entity("fan.desk", "Desk", "off")>>

MenuBare ==
    { ArrayReply(<<ServiceItem("", "", "")>>),
      ProseReply }

Scenario(u, h, m) == [user_text |-> u, all_states |-> h, menu |-> m]

Scenarios ==
    { Scenario(U_KITCHEN, HomeA, MenuFinishFirst),
      Scenario(U_IT, HomeA, MenuFinishFirst),
      Scenario(U_IT, HomeA, MenuRead),
      Scenario(U_KITCHEN, HomeA, MenuRead),
      Scenario(U_KITCHEN, HomeB, MenuLoose),
      Scenario(U_IT, HomeA, MenuLoose),
      Scenario(U_KITCHEN, HomeA, MenuSilent),
      Scenario(U_IT, HomeB, MenuTimeout),
      Scenario(U_KITCHEN, HomeA, MenuTimeout),
      Scenario(U_DOOR, HomeA, MenuDoor),
      Scenario(U_KITCHEN, HomeA, MenuKitchen),
      Scenario(U_ROOMS, HomeRooms, MenuRooms),
      Scenario(U_KITCHEN, HomeA, MenuAsk),
      Scenario(U_IT, HomeA, MenuAsk),
      Scenario(U_KITCHEN, HomeA, MenuTwo),
      Scenario(U_OFF, HomeA, MenuOff),
      Scenario(U_KITCHEN, HomeA, MenuGarbled),
      Scenario(U_KITCHEN, HomeA, MenuRepeat),
      Scenario(U_KETTLE, HomeSwitch, MenuBare),
      Scenario(U_KITCHEN, HomeA, MenuWrongId),
      Scenario(U_KITCHEN, HomeA, MenuOrder),
      Scenario(U_STATE, HomeA, MenuBlind),
      Scenario(U_STATE, HomeA, MenuDoor) }

Init ==
    \E sc \in Scenarios, beam \in 0..MaxBeam, k \in 1..MaxK, md \in 0..MaxDepth :
        /\ InitToT(sc.user_text, sc.all_states, sc.menu, beam, k, md)
        /\ react = ReactIdle
        /\ heap = HeapIdle
        /\ workers = WorkersIdle
        /\ cot = CotIdle

Spec == Init /\ [][Next]_vars

----------------------------------------------------------------------------
(* The tool-agent architectures: Arch/standard.py and Arch/reflexion.py.     *)
(* The agent built by agent_runner.py:142-152 owns the three tools; inside   *)
(* run_sync the language model decides which tools to call, and with which   *)
(* arguments, before it gives its final text.                                *)

\* the tool calls the language model may ask for (agent_runner.py:99-140)
AgentCalls ==
    { ListOp("light", TRUE), DetailsOp(<<DOOR_ID>>, TRUE),
      ServiceOp("light", "turn_on", KITCHEN_ID, TRUE) }

\* the final texts the language model may give
AgentTexts ==
    { KITCHEN_DONE, DOOR_LOCKED, "", "Error: unknown entity",
      "<think>no tool needed</think>  Which device?" }

BAD_TOKENS == <<"error", "invalid", "failed", "cannot", "unknown", "not found">>

\* reflexion.py:34-41
_is_obviously_bad(text) ==
    LET t == strip(lower(text))
    IN  t = "" \/ \E i \in 1..Len(BAD_TOKENS) : Contains(t, BAD_TOKENS[i])

PLEASE_SPECIFY == "Please specify the exact device."   \* reflexion.py:110

AgentFrame ==
    /\ UNCHANGED <<frontier, candidates_next, scored, depth, node_idx, planner_calls,
                   only_timeouts, react, heap, workers, cot>>
    /\ UNCHANGED Params

\* one tool call made by the language model inside run_sync; a failing list or
\* service request leaves run_sync, and so call_agent, by its exception
AgentToolCall ==
    /\ arch \in {"standard", "reflexion"}
    /\ pc \in {"attempt1", "attempt2"}
    /\ Len(ha_log) < MaxAgentTools
    /\ \E call \in AgentCalls, fails \in BOOLEAN :
         /\ ha_log' = Append(ha_log, [call EXCEPT !.ok = ~fails])
         /\ IF fails /\ call.op # "details"
            THEN Raise("RequestException")
            ELSE UNCHANGED <<pc, result, error, answer_node, answer_kind>>
    /\ UNCHANGED out1
    /\ AgentFrame

\* standard.py:30-38
StandardCall ==
    /\ arch = "standard"
    /\ pc = "attempt1"
    /\ \E text \in AgentTexts : Return(_sanitize_output(text), NoNode, "agent")
    /\ UNCHANGED <<ha_log, out1>>
    /\ AgentFrame

\* reflexion.py:87-97
ReflexionAttempt1 ==
    /\ arch = "reflexion"
    /\ pc = "attempt1"
    /\ \E text \in AgentTexts :
         LET o1 == _sanitize_output(text)
         IN  IF ~_is_obviously_bad(o1)
             THEN Return(o1, NoNode, "agent") /\ UNCHANGED out1
             ELSE /\ pc' = "attempt2"
                  /\ out1' = o1
                  /\ UNCHANGED <<result, error, answer_node, answer_kind>>
    /\ UNCHANGED ha_log
    /\ AgentFrame

\* reflexion.py:99-110
ReflexionAttempt2 ==
    /\ arch = "reflexion"
    /\ pc = "attempt2"
    /\ \E text \in AgentTexts :
         LET out2 == _sanitize_output(text)
         IN  Return(IF out2 # "" THEN out2 ELSE IF out1 # "" THEN out1 ELSE PLEASE_SPECIFY,
                    NoNode, "agent")
    /\ UNCHANGED <<ha_log, out1>>
    /\ AgentFrame

NextAgents == AgentToolCall \/ StandardCall \/ ReflexionAttempt1 \/ ReflexionAttempt2

InitAgents ==
    \E a \in {"standard", "reflexion"}, u \in {U_KITCHEN, U_DOOR, U_IT} :
        /\ arch = a
        /\ user_text = u
        /\ all_states = HomeA
        /\ planner_menu = {}
        /\ beam_size = 0
        /\ k_per_node = 0
        /\ max_depth = 0
        /\ intent = ""
        /\ frontier = <<>>
        /\ candidates_next = <<>>
        /\ scored = <<>>
        /\ depth = 0
        /\ node_idx = 0
        /\ pc = "attempt1"
        /\ result = ""
        /\ error = ""
        /\ ha_log = <<>>
        /\ answer_node = NoNode
        /\ answer_kind = ""
        /\ planner_calls = 0
        /\ only_timeouts = TRUE
        /\ out1 = ""
        /\ react = ReactIdle
        /\ heap = HeapIdle
        /\ workers = WorkersIdle
        /\ cot = CotIdle

SpecAgents == InitAgents /\ [][NextAgents]_vars

----------------------------------------------------------------------------
(* The ToT engine in the configuration of react.py (beam_size 1, k_per_node  *)
(* 1, max_depth 3) and react.py's call_agent, run side by side on the same   *)
(* user text, the same home and the same planner: a planner that gives the   *)
(* same reply to every prompt.                                               *)

MAX_DEPTH_DEFAULT == 3    \* tot.py:224

EngineReplies == MenuFinishFirst \cup MenuLoose \cup MenuSilent \cup MenuDoor

InitEngines ==
    \E u \in {U_KITCHEN, U_IT}, h \in {HomeA, HomeB}, reply \in EngineReplies :
        /\ InitToT(u, h, {reply}, 1, 1, MAX_DEPTH_DEFAULT)
        /\ react = ReactStart
        /\ heap = HeapIdle
        /\ workers = WorkersIdle
        /\ cot = CotIdle

NextEngines ==
    ExpandNode \/ RankAndPrune \/ FinishProbe \/ Fallback \/ ReactStep \/ ReactFallback

SpecEngines == InitEngines /\ [][NextEngines]_vars

----------------------------------------------------------------------------
(* The pure helpers of Arch/tot.py, each called once on an input drawn from  *)
(* a bounded set: arch names the helper, pc is "call" before and "done"      *)
(* after the call.                                                           *)

\* the texts made of at most n of the pieces, in any order
RECURSIVE TextsUpTo(_, _)
TextsUpTo(pieces, n) ==
    IF n = 0 THEN {""}
    ELSE With(TextsUpTo(pieces, n - 1), LAMBDA shorter :
            shorter \cup {t \o p : t \in shorter, p \in pieces})

\* the sequences of at most n elements of the set pool
RECURSIVE SeqsUpTo(_, _)
SeqsUpTo(pool, n) ==
    IF n = 0 THEN {<<>>}
    ELSE With(SeqsUpTo(pool, n - 1), LAMBDA shorter :
            shorter \cup {Append(q, e) : q \in shorter, e \in pool})

\* language-model output: thought tags, whole and in halves, fences and words
SanitizerPieces == {"<THINK>", "</think>", "<th", "ink>", FENCE, "x "}

\* user requests: the words of commands and questions, in either case
IntentPieces ==
    {"turn ", "switch ", "on", "off", "Turn ON", "switch off", "open", "Close", "lock", "un",
     "set", " ", "increase", "decrease", "toggle", "Dim", "brighten", "is the ", "lamp"}

\* what a listing may hold: two entities of the same name, one with half a match, one with none
CandidatePool ==
    { [entity_id |-> "switch.kitchen_lights_2", name |-> "Kitchen Lights"],
      [entity_id |-> KITCHEN_ID, name |-> "Kitchen Lights"],
      [entity_id |-> DOOR_ID, name |-> "Front Door"],
      [entity_id |-> "fan.desk", name |-> "Desk"] }

ResolverQueries == {U_KITCHEN, U_IT, "is the desk fan running"}

HelperFrame ==
    UNCHANGED <<user_text, beam_size, k_per_node, max_depth, all_states, planner_menu, arch,
                frontier, candidates_next, scored, depth, node_idx, error, ha_log,
                answer_node, answer_kind, planner_calls, only_timeouts, out1, react, heap, workers, cot>>

\* tot.py:339, 476: final = _sanitize_output(...)
SanitizeCall ==
    /\ arch = "_sanitize_output"
    /\ pc = "call"
    /\ result' = _sanitize_output(user_text)
    /\ pc' = "done"
    /\ UNCHANGED intent
    /\ HelperFrame

\* tot.py:246: intent = _infer_intent(user_text)
InferIntentCall ==
    /\ arch = "_infer_intent"
    /\ pc = "call"
    /\ intent' = _infer_intent(user_text)
    /\ pc' = "done"
    /\ UNCHANGED result
    /\ HelperFrame

\* tot.py:408: resolved_eid = _best_entity_from_candidates(user_text, candidates),
\* the candidates being those of an observation
ResolveCall ==
    /\ arch = "_best_entity_from_candidates"
    /\ pc = "call"
    /\ result' = _best_entity_from_candidates(user_text, frontier[1].last_obs.candidates)
    /\ pc' = "done"
    /\ UNCHANGED intent
    /\ HelperFrame

NextHelpers == SanitizeCall \/ InferIntentCall \/ ResolveCall

\* the helper fn is about to be called on the text u and the candidates cands
HelperStart(fn, u, cands) ==
    /\ arch = fn
    /\ user_text = u
    /\ frontier = <<[root EXCEPT !.last_obs = CandidatesObs(cands, Len(cands))]>>
    /\ pc = "call"
    /\ all_states = <<>>
    /\ planner_menu = {}
    /\ beam_size = 0
    /\ k_per_node = 0
    /\ max_depth = 0
    /\ intent = ""
    /\ candidates_next = <<>>
    /\ scored = <<>>
    /\ depth = 0
    /\ node_idx = 1
    /\ result = ""
    /\ error = ""
    /\ ha_log = <<>>
    /\ answer_node = NoNode
    /\ answer_kind = ""
    /\ planner_calls = 0
    /\ only_timeouts = TRUE
    /\ out1 = ""
    /\ react = ReactIdle

InitHelpers ==
    /\ heap = HeapIdle
    /\ workers = WorkersIdle
    /\ cot = CotIdle
    /\ \/ \E t \in TextsUpTo(SanitizerPieces, MaxPieces) : HelperStart("_sanitize_output", t, <<>>)
       \/ \E t \in TextsUpTo(IntentPieces, MaxWords) : HelperStart("_infer_intent", t, <<>>)
       \/ \E q \in ResolverQueries, cands \in SeqsUpTo(CandidatePool, MaxCands) :
             HelperStart("_best_entity_from_candidates", q, cands)

SpecHelpers == InitHelpers /\ [][NextHelpers]_vars

----------------------------------------------------------------------------
(* call_agent of Arch/react.py on its own, with a planner that may change    *)
(* its reply from step to step.                                              *)

ReactTexts == {U_KITCHEN, U_IT, U_DOOR}

ReactMenus == {MenuKitchen, MenuDoor, MenuFinishFirst, MenuRead, MenuAsk, MenuSilent}

InitReact ==
    /\ \E u \in ReactTexts, m \in ReactMenus : user_text = u /\ planner_menu = m
    /\ all_states = HomeA
    /\ arch = "react"
    /\ react = ReactStart
    /\ heap = HeapIdle
    /\ workers = WorkersIdle
    /\ cot = CotIdle
    /\ beam_size = 0
    /\ k_per_node = 0
    /\ max_depth = 0
    /\ intent = ""
    /\ frontier = <<>>
    /\ candidates_next = <<>>
    /\ scored = <<>>
    /\ depth = 0
    /\ node_idx = 1
    /\ pc = "idle"
    /\ result = ""
    /\ error = ""
    /\ ha_log = <<>>
    /\ answer_node = NoNode
    /\ answer_kind = ""
    /\ planner_calls = 0
    /\ only_timeouts = TRUE
    /\ out1 = ""

NextReact == ReactStep \/ ReactFallback

SpecReact == InitReact /\ [][NextReact]_vars

----------------------------------------------------------------------------
(* The objects of one round of tot.py:267-449.  A Python list or dict is an   *)
(* object with an address, and two names can hold the same address.  lists    *)
(* and dicts are the objects made so far, by address; a node dict holds the   *)
(* address of its transcript list.  frontier and pool (candidates_next) hold  *)
(* node addresses, child is the address bound to the name child (0: none),    *)
(* parent[a] is the node the dict at a was made from.  No statement of the    *)
(* round writes into an observation dict, each assignment binds a new one,    *)
(* so observations are kept as values.                                        *)

MaxPool == 3           \* children made in the round looked at

\* the node stored at address a, its transcript read through the list address
HeapNode(h, a) == [h.dicts[a] EXCEPT !.transcript = h.lists[@]]

\* the statements of the guard note after child = node, which binds child to the
\* parent's dict
HeapGuardAlias(h, guard) ==
    [h EXCEPT !.dicts[h.frontier[h.node]] = [@ EXCEPT !.transcript = Len(h.lists) + 1,
                                                      !.depth = h.depth],
              !.lists = Append(@, @[h.dicts[h.frontier[h.node]].transcript]
                                     \o <<"GUARD:" \o guard>>),
              !.pool = Append(@, h.frontier[h.node])]

\* tot.py:302-305: child = {**node}; child["transcript"] = node["transcript"] + [...];
\* child["depth"] = depth; candidates_next.append(child)
HeapGuardCopy(h, guard) ==
    [h EXCEPT !.dicts = Append(@, [@[h.frontier[h.node]] EXCEPT
                                      !.transcript = Len(h.lists) + 1, !.depth = h.depth]),
              !.lists = Append(@, @[h.dicts[h.frontier[h.node]].transcript]
                                     \o <<"GUARD:" \o guard>>),
              !.parent = Append(@, h.frontier[h.node]),
              !.pool = Append(@, Len(h.dicts) + 1)]

\* a new dict that takes node["transcript"] itself, the parent's list
HeapChildShared(h) ==
    [h EXCEPT !.dicts = Append(@, NewChild(h.dicts[h.frontier[h.node]], h.depth)),
              !.parent = Append(@, h.frontier[h.node]),
              !.child = Len(h.dicts) + 1]

\* tot.py:321-327: a new dict with a new list, list(node["transcript"])
HeapChildCopy(h) ==
    [h EXCEPT !.lists = Append(@, @[h.dicts[h.frontier[h.node]].transcript]),
              !.dicts = Append(@, [NewChild(h.dicts[h.frontier[h.node]], h.depth) EXCEPT
                                      !.transcript = Len(h.lists) + 1]),
              !.parent = Append(@, h.frontier[h.node]),
              !.child = Len(h.dicts) + 1]

\* child["transcript"].append(entry) for each entry, child["last_obs"] = obs, the flag
\* assignments, candidates_next.append(child)
HeapFinishChild(h, entries, obs, ds, dd) ==
    [h EXCEPT !.lists[h.dicts[h.child].transcript] = @ \o entries,
              !.dicts[h.child] = [@ EXCEPT !.last_obs = obs,
                                           !.did_service = @ \/ ds,
                                           !.did_details = @ \/ dd],
              !.pool = Append(@, h.child),
              !.child = 0]

ListedA == _summarize_entities_for_obs(get_entities_by_domain(HomeA, "light"), U_KITCHEN, 6)

\* what the branches of tot.py:329-447 write into the child, by branch
HeapBranch(h, branch) ==
    CASE branch = "ask" ->                                          \* tot.py:329-335
            HeapFinishChild(h, <<"ASK:" \o DEFAULT_ASK>>, AskObs(DEFAULT_ASK), FALSE, FALSE)
      [] branch = "list" ->                                         \* tot.py:342-361
            HeapFinishChild(h, <<"ACTION:get_entities_by_domain_tool('light')",
                                 "OBS:" \o json_dumps(ListedA)>>, ListedA, FALSE, FALSE)
      [] branch = "details" ->                                      \* tot.py:363-372
            HeapFinishChild(h, <<"ACTION:get_entities_details_tool([])",
                                 "OBS:" \o json_dumps(DetailsObs(<<>>, 0))>>,
                            DetailsObs(<<>>, 0), FALSE, TRUE)
      [] branch = "unclear" ->                                      \* tot.py:411-420
            HeapFinishChild(h, <<"GUARD:entity_id unclear; listing candidates first.",
                                 "ACTION:get_entities_by_domain_tool('light')",
                                 "OBS:" \o json_dumps(ListedA)>>, ListedA, FALSE, FALSE)
      [] branch = "service_ask" ->                                  \* tot.py:431-437
            HeapFinishChild(h, <<"ASK:" \o SERVICE_ASK>>, AskObs(SERVICE_ASK), FALSE, FALSE)
      [] OTHER ->                                                   \* tot.py:439-447
            HeapFinishChild(h, <<"ACTION:service_call_tool(light,turn_on," \o KITCHEN_ID \o ")",
                                 "OBS:" \o json_dumps(ServiceObs("light", "turn_on", KITCHEN_ID))>>,
                            ServiceObs("light", "turn_on", KITCHEN_ID), TRUE, FALSE)

HeapBranches == {"ask", "list", "details", "unclear", "service_ask", "service"}

BranchFrame ==
    UNCHANGED <<user_text, beam_size, k_per_node, max_depth, all_states, planner_menu, arch,
                intent, frontier, candidates_next, scored, depth, node_idx, pc, result, error,
                ha_log, answer_node, answer_kind, planner_calls, only_timeouts, out1, react,
                workers, cot>>

\* tot.py:299-306: a finish the guard rejects becomes a note child
GuardNote ==
    /\ arch = "tot_objects"
    /\ heap.child = 0
    /\ Len(heap.dicts) < Len(heap.frontier) + MaxPool
    /\ \E intent_ \in {"action", "status"} :
          heap' = HeapGuardCopy(heap, _finish_guard(intent_, FALSE, FALSE, FinishItem("Done")))
    /\ BranchFrame

\* tot.py:318-327: the actor binds child to a new node for the next candidate
MakeChild ==
    /\ arch = "tot_objects"
    /\ heap.child = 0
    /\ Len(heap.dicts) < Len(heap.frontier) + MaxPool
    /\ heap' = HeapChildCopy(heap)
    /\ BranchFrame

\* tot.py:329-447: the candidate's branch fills the child and adds it to the pool
ExtendChild ==
    /\ arch = "tot_objects"
    /\ heap.child # 0
    /\ \E branch \in HeapBranches : heap' = HeapBranch(heap, branch)
    /\ BranchFrame

\* tot.py:449: an unknown tool leaves the child out of the pool
DropChild ==
    /\ arch = "tot_objects"
    /\ heap.child # 0
    /\ heap' = [heap EXCEPT !.child = 0]
    /\ BranchFrame

\* tot.py:267: the node loop goes on to the next frontier node
NextNode ==
    /\ arch = "tot_objects"
    /\ heap.child = 0
    /\ heap.node < Len(heap.frontier)
    /\ heap' = [heap EXCEPT !.node = @ + 1]
    /\ BranchFrame

NextBranches == GuardNote \/ MakeChild \/ ExtendChild \/ DropChild \/ NextNode

\* the nodes a frontier can hold at the start of a round: the root, a listing
\* child, a guard-note child of the root, a child that called the service
FrontierNodes ==
    { root,
      Node(<<"ACTION:get_entities_by_domain_tool('light')", "OBS:" \o json_dumps(ListedA)>>,
           ListedA, FALSE, FALSE, 1),
      GuardChild(root, _finish_guard("action", FALSE, FALSE, FinishItem("Done")), 1),
      Node(<<"ACTION:service_call_tool(light,turn_on," \o KITCHEN_ID \o ")",
             "OBS:" \o json_dumps(ServiceObs("light", "turn_on", KITCHEN_ID))>>,
           ServiceObs("light", "turn_on", KITCHEN_ID), TRUE, FALSE, 1) }

\* the objects of a frontier whose nodes each own their transcript list
HeapOf(nodes) ==
    [lists |-> [i \in 1..Len(nodes) |-> nodes[i].transcript],
     dicts |-> [i \in 1..Len(nodes) |-> [nodes[i] EXCEPT !.transcript = i]],
     parent |-> [i \in 1..Len(nodes) |-> 0],
     frontier |-> [i \in 1..Len(nodes) |-> i],
     pool |-> <<>>, node |-> 1, child |-> 0,
     depth |-> nodes[1].depth + 1]

InitBranches ==
    /\ HelperStart("tot_objects", U_KITCHEN, <<>>)
    /\ workers = WorkersIdle
    /\ cot = CotIdle
    /\ \E n1 \in FrontierNodes :
          \/ heap = HeapOf(<<n1>>)
          \/ n1 # root /\ \E n2 \in FrontierNodes \ {root} : heap = HeapOf(<<n1, n2>>)

SpecBranches == InitBranches /\ [][NextBranches]_vars

----------------------------------------------------------------------------
(* call_agent of Arch/cot.py: one planner call for a plan of steps, the      *)
(* steps executed in order, the guards, the final sentence.  The helpers     *)
(* _score_match, _expected_on_off, _infer_intent, _likely_domains,           *)
(* _best_entity_from_candidates and the two summaries of cot.py:58-123 are   *)
(* the functions of tot.py again.  A planner reply of kind "plan" is a JSON  *)
(* object whose "steps" are its items.                                       *)

PlanReply(steps, hint) == [kind |-> "plan", items |-> steps, final_hint |-> hint]

COT_MAX_STEPS == 4                                             \* cot.py:239
WHICH_EXACT_DEVICE == "Which exact device should I control?"   \* cot.py:325
WHICH_STATUS == "Which device's status should I check?"        \* cot.py:328
COT_NOTE_ENTITY == "GUARD:entity_id unresolved; skipping service_call this step."
COT_NOTE_SERVICE == "GUARD:domain/service unresolved; skipping service_call this step."

\* cot.py:219-226: the plan used when the planner gave no steps
DefaultPlan(u_text, intent_) ==
    <<ListItem(_likely_domains(u_text, intent_)[1])>>
        \o (IF intent_ = "action"
            THEN <<ServiceItem("light",
                               IF _expected_on_off(u_text) = "on" THEN "turn_on" ELSE "turn_off",
                               ""),
                   DetailsItem(<<>>)>>
            ELSE <<DetailsItem(<<>>)>>)

\* cot.py:171-176 and 212-226: the steps of a planner reply
CotSteps(c, reply) ==
    IF reply.kind = "plan" /\ reply.items # <<>>
    THEN [c EXCEPT !.steps = reply.items, !.final_hint = reply.final_hint,
                   !.planned = TRUE, !.pc = "step"]
    ELSE [c EXCEPT !.steps = DefaultPlan(user_text, _infer_intent(user_text)),
                   !.final_hint = IF reply.kind = "plan" THEN reply.final_hint ELSE "",
                   !.pc = "step"]

CotRaise(c, log, exc) == [c EXCEPT !.pc = "raised", !.error = exc, !.log = log]

\* the end of one iteration of the loop of cot.py:239
CotNext(c) ==
    [c EXCEPT !.idx = @ + 1,
              !.pc = IF c.idx < Len(c.steps) /\ c.idx < COT_MAX_STEPS THEN "step" ELSE "guards"]

\* cot.py:245-261
CotList(c, item, fail_at) ==
    With(TryDomains(Acc(<<>>, c.log),
                    IF item.domain # "" THEN <<item.domain>>
                    ELSE _likely_domains(user_text, _infer_intent(user_text)),
                    fail_at),
         LAMBDA probe :
            IF probe.acc.status = "raise"
            THEN CotRaise(c, probe.acc.log, "RequestException")
            ELSE With(_summarize_entities_for_obs(probe.ents, user_text, 6), LAMBDA obs :
                    CotNext([c EXCEPT
                        !.log = probe.acc.log,
                        !.last_obs = obs,
                        !.transcript = @ \o <<"ACTION:get_entities_by_domain_tool("
                                                \o py_repr(IF probe.domain # "" THEN probe.domain
                                                           ELSE item.domain) \o ")",
                                              "OBS:" \o json_dumps(obs)>>])))

\* cot.py:265-271: the entity ids of a details step
CotDetailIds(c, item) ==
    IF item.entity_ids # <<>> THEN item.entity_ids
    ELSE With(_best_entity_from_candidates(user_text, c.last_obs.candidates), LAMBDA best :
            IF best # "" THEN <<best>> ELSE <<>>)

\* cot.py:263-278
CotDetails(c, item, fail_at) ==
    With(CotDetailIds(c, item), LAMBDA entity_ids :
        With(DedupeStr(entity_ids, {}) # <<>> /\ fail_at = 1, LAMBDA fails :
            IF fails /\ details_failure_raises(entity_ids)
            THEN CotRaise(c, Append(c.log, DetailsOp(entity_ids, FALSE)), "RequestException")
            ELSE With(_summarize_details_for_obs(
                          IF fails THEN <<>> ELSE get_entities_details(all_states, entity_ids), 3),
                      LAMBDA obs :
                        CotNext([c EXCEPT
                            !.log = Append(@, DetailsOp(entity_ids, ~fails)),
                            !.last_obs = obs,
                            !.did_details = TRUE,
                            !.transcript = @ \o <<"ACTION:get_entities_details_tool("
                                                    \o py_list(entity_ids) \o ")",
                                                  "OBS:" \o json_dumps(obs)>>]))))

\* cot.py:282-289: the domain of a service step, and last_obs after the probe
CotServiceDomain(c, item, fail_at) ==
    IF item.domain # ""
    THEN [acc |-> Acc(<<>>, c.log), domain |-> item.domain, last_obs |-> c.last_obs]
    ELSE With(TryDomains(Acc(<<>>, c.log),
                         _likely_domains(user_text, _infer_intent(user_text)), fail_at),
              LAMBDA probe :
                 [acc |-> probe.acc, domain |-> probe.domain,
                  last_obs |-> IF probe.domain # ""
                               THEN _summarize_entities_for_obs(probe.ents, user_text, 6)
                               ELSE c.last_obs])

\* cot.py:290-297 and 234-237: the candidates: those of last_obs, else a fresh listing
CotServiceCandidates(probe, fail_at) ==
    IF probe.acc.status = "raise" \/ probe.last_obs.candidates # <<>>
    THEN [acc |-> probe.acc, candidates |-> probe.last_obs.candidates]
    ELSE [acc |-> BackendCall(probe.acc, ListOp(probe.domain, TRUE),
                              ListOp(probe.domain, FALSE), fail_at),
          candidates |-> _summarize_entities_for_obs(
                             get_entities_by_domain(all_states, probe.domain),
                             user_text, 6).candidates]

\* cot.py:298-318: skip with a note, or call the service
CotServiceCall(c, probe, found, resolved_eid, service, fail_at) ==
    IF found.acc.status = "raise" THEN CotRaise(c, found.acc.log, "RequestException")
    ELSE IF resolved_eid = ""
    THEN CotNext([c EXCEPT !.log = found.acc.log, !.last_obs = probe.last_obs,
                           !.transcript = Append(@, COT_NOTE_ENTITY)])
    ELSE IF probe.domain = "" \/ service = ""
    THEN CotNext([c EXCEPT !.log = found.acc.log, !.last_obs = probe.last_obs,
                           !.transcript = Append(@, COT_NOTE_SERVICE)])
    ELSE With(BackendCall(found.acc, ServiceOp(probe.domain, service, resolved_eid, TRUE),
                          ServiceOp(probe.domain, service, resolved_eid, FALSE), fail_at),
              LAMBDA acc :
                 IF acc.status = "raise" THEN CotRaise(c, acc.log, "RequestException")
                 ELSE With(ServiceObs(probe.domain, service, resolved_eid), LAMBDA obs :
                         CotNext([c EXCEPT
                             !.log = acc.log,
                             !.last_obs = obs,
                             !.did_service = TRUE,
                             !.transcript = @ \o <<"ACTION:service_call_tool(" \o probe.domain
                                                     \o "," \o service \o "," \o resolved_eid
                                                     \o ")",
                                                   "OBS:" \o json_dumps(obs)>>])))

\* cot.py:280-318
CotService(c, item, fail_at) ==
    With(CotServiceDomain(c, item, fail_at), LAMBDA probe :
        With(CotServiceCandidates(probe, fail_at), LAMBDA found :
            CotServiceCall(c, probe, found, ResolveEntity(item.entity_id, found.candidates),
                           InferService(item.service, _expected_on_off(user_text)), fail_at)))

\* cot.py:239-320: one iteration of the executor loop
CotExecute(c, item, fail_at) ==
    IF ~item.valid THEN CotNext(c)
    ELSE CASE item.tool = "get_entities_by_domain_tool" -> CotList(c, item, fail_at)
           [] item.tool = "get_entities_details_tool" -> CotDetails(c, item, fail_at)
           [] item.tool = "service_call_tool" -> CotService(c, item, fail_at)
           [] OTHER -> CotNext(c)

\* cot.py:336-346: the sentence built for an action
CotActionSentence(obs) ==
    IF obs.entity_id # "" /\ obs.service = "turn_on"
    THEN title(replace_char(after_last_dot(obs.entity_id), "_", " ")) \o " turned on."
    ELSE IF obs.entity_id # "" /\ obs.service = "turn_off"
    THEN title(replace_char(after_last_dot(obs.entity_id), "_", " ")) \o " turned off."
    ELSE "Action completed."

\* what the finalizer model may answer; "" stands for no answer within the timeout
FinalizerTexts == {"Front Door is locked.", "<think>nothing read</think> I could  not read it.", ""}

\* cot.py:347-360: the sentence for a status, final being the finalizer's text
CotStatusSentence(obs, final) ==
    IF obs.details # <<>> /\ lower(obs.details[1].state) # ""
    THEN (IF obs.details[1].name # "" THEN obs.details[1].name
          ELSE IF obs.details[1].entity_id # "" THEN obs.details[1].entity_id ELSE "Device")
         \o " is " \o lower(obs.details[1].state) \o "."
    ELSE IF final = "" THEN "Status read."
    ELSE _sanitize_output(final)

\* cot.py:322-360: the guards and the final sentence
CotAnswer(c, final) ==
    With(_infer_intent(user_text), LAMBDA intent_ :
        IF intent_ = "action" /\ ~c.did_service THEN WHICH_EXACT_DEVICE
        ELSE IF intent_ = "status" /\ ~c.did_details THEN WHICH_STATUS
        ELSE IF c.final_hint # "" /\ ~_is_obviously_bad(c.final_hint)
        THEN _sanitize_output(c.final_hint)
        ELSE IF intent_ = "action" THEN CotActionSentence(c.last_obs)
        ELSE CotStatusSentence(c.last_obs, final))

CotFrame ==
    UNCHANGED <<user_text, beam_size, k_per_node, max_depth, all_states, planner_menu, arch,
                intent, frontier, candidates_next, scored, depth, node_idx, pc, result, error,
                ha_log, answer_node, answer_kind, planner_calls, only_timeouts, out1, react,
                heap, workers>>

\* cot.py:211-226; a planner that does not answer in time leaves call_agent by
\* the TimeoutError of fut.result (cot.py:174)
CotPlan ==
    /\ arch = "cot"
    /\ cot.pc = "plan"
    /\ \E reply \in planner_menu :
          cot' = IF reply.kind = "timeout"
                 THEN CotRaise([cot EXCEPT !.planner_calls = @ + 1], cot.log, "TimeoutError")
                 ELSE CotSteps([cot EXCEPT !.planner_calls = @ + 1], reply)
    /\ CotFrame

\* cot.py:239-320
CotStep ==
    /\ arch = "cot"
    /\ cot.pc = "step"
    /\ \E fail_at \in 0..MaxFailAt :
          cot' = CotExecute(cot, cot.steps[cot.idx], fail_at)
    /\ CotFrame

\* cot.py:322-360
CotFinish ==
    /\ arch = "cot"
    /\ cot.pc = "guards"
    /\ \E final \in FinalizerTexts :
          cot' = [cot EXCEPT !.pc = "returned", !.result = CotAnswer(cot, final)]
    /\ CotFrame

NextCot == CotPlan \/ CotStep \/ CotFinish

\* a request with an action word and no on/off phrase, and requests that name
\* a device of another domain than light
U_DIM == "dim the kitchen lights"
U_FAN == "turn on the desk fan"
FAN_ID == "fan.desk_fan"

HomeFan == <<Entity(FAN_ID, "Desk Fan", "off"), Entity(KITCHEN_ID, "Kitchen Lights", "on")>>

CotTexts == {U_KITCHEN, U_OFF, U_DIM, U_FAN, U_STATE, U_IT}

\* the plans of the planner: complete, with parts left out, without steps, or none
CotMenu ==
    { PlanReply(<<ListItem("light"), ServiceItem("light", "turn_on", KITCHEN_ID),
                  DetailsItem(<<KITCHEN_ID>>)>>, KITCHEN_DONE),
      PlanReply(<<ServiceItem("", "", "")>>, ""),
      PlanReply(<<ServiceItem("fan", "toggle", WRONG_ID), JunkItem, OtherToolItem>>,
                "Unknown device."),
      PlanReply(<<DetailsItem(<<DOOR_ID>>)>>, ""),
      PlanReply(<<ListItem(""), DetailsItem(<<>>)>>, DOOR_LOCKED),
      PlanReply(<<>>, ""),
      ProseReply,
      TimeoutReply }

InitCot ==
    /\ \E u \in CotTexts, h \in {HomeA, HomeFan} : user_text = u /\ all_states = h
    /\ planner_menu = CotMenu
    /\ arch = "cot"
    /\ cot = CotStart
    /\ react = ReactIdle
    /\ heap = HeapIdle
    /\ workers = WorkersIdle
    /\ beam_size = 0
    /\ k_per_node = 0
    /\ max_depth = 0
    /\ intent = ""
    /\ frontier = <<>>
    /\ candidates_next = <<>>
    /\ scored = <<>>
    /\ depth = 0
    /\ node_idx = 1
    /\ pc = "idle"
    /\ result = ""
    /\ error = ""
    /\ ha_log = <<>>
    /\ answer_node = NoNode
    /\ answer_kind = ""
    /\ planner_calls = 0
    /\ only_timeouts = TRUE
    /\ out1 = ""

SpecCot == InitCot /\ [][NextCot]_vars

----------------------------------------------------------------------------
(* The threads of _planner_call_with_timeout, tot.py:180-195.  Every planner *)
(* call makes an executor of its own and submits planner.run_sync to it; the *)
(* worker thread runs beside call_agent.  call_agent waits on the future of  *)
(* the call; when the wait times out it shuts the executor down without      *)
(* waiting, and the worker goes on.  workers.calls holds, for every planner *)
(* call, its prompt, its thread and its future; workers.used the text each   *)
(* call returned to call_agent; workers.done_order the calls in the order    *)
(* their workers finished.                                                   *)

MaxPlannerCalls == 4   \* planner calls of one run of call_agent

PENDING == [kind |-> "pending"]

\* what the language model answers to the prompt of branch b in round r; run_sync
\* belongs to the agent library, and is taken to answer the prompt it was given
AnswerTo(prompt) == [kind |-> "text", prompt |-> prompt]

\* tot.py:181-182: a new executor, and the future of the submitted run_sync
PlannerCall(prompt) ==
    [prompt |-> prompt, thread |-> "running", future |-> PENDING, abandoned |-> FALSE]

\* tot.py:263-267: the branch the next prompt is made for
NextPrompts(w) ==
    IF w.calls = <<>> THEN {<<1, 1>>}
    ELSE With(w.calls[Len(w.calls)].prompt, LAMBDA last :
            {<<last[1] + 1, 1>>}
                \cup (IF last[1] > 1 /\ last[2] < MaxBeam THEN {<<last[1], last[2] + 1>>} ELSE {}))

\* a wait on whichever future was resolved last
FutureOfLatest(w, i) ==
    IF w.done_order = <<>> THEN PENDING
    ELSE w.calls[w.done_order[Len(w.done_order)]].future

\* tot.py:182-184: fut is a local of the call, the future of its own submit
FutureOf(w, i) == w.calls[i].future

WorkersFrame ==
    UNCHANGED <<user_text, beam_size, k_per_node, max_depth, all_states, planner_menu, arch,
                intent, frontier, candidates_next, scored, depth, node_idx, pc, result, error,
                ha_log, answer_node, answer_kind, planner_calls, only_timeouts, out1, react,
                heap, cot>>

\* tot.py:181-182
Submit ==
    /\ arch = "tot_workers"
    /\ workers.main = "submit"
    /\ Len(workers.calls) < MaxPlannerCalls
    /\ \E prompt \in NextPrompts(workers) :
          workers' = [workers EXCEPT !.calls = Append(@, PlannerCall(prompt)),
                                     !.main = "wait"]
    /\ WorkersFrame

\* tot.py:184-186: the future of the call is resolved within the timeout
Receive ==
    /\ arch = "tot_workers"
    /\ workers.main = "wait"
    /\ FutureOf(workers, Len(workers.calls)) # PENDING
    /\ workers' = [workers EXCEPT !.used = Append(@, FutureOf(workers, Len(workers.calls))),
                                  !.main = "act"]
    /\ WorkersFrame

\* tot.py:187-192: the wait times out; the executor is shut down without waiting
TimeOut ==
    /\ arch = "tot_workers"
    /\ workers.main = "wait"
    /\ FutureOf(workers, Len(workers.calls)) = PENDING
    /\ workers' = [workers EXCEPT !.used = Append(@, TIMEOUT_SENTINEL),
                                  !.calls[Len(workers.calls)].abandoned = TRUE,
                                  !.main = "act"]
    /\ WorkersFrame

\* the worker thread of a call: planner.run_sync returns and resolves its future
WorkerDone ==
    /\ arch = "tot_workers"
    /\ \E i \in 1..Len(workers.calls) :
          /\ workers.calls[i].thread = "running"
          /\ workers' = [workers EXCEPT !.calls[i].thread = "done",
                                        !.calls[i].future = AnswerTo(workers.calls[i].prompt),
                                        !.done_order = Append(@, i)]
    /\ WorkersFrame

\* tot.py:289-449: call_agent works on the reply, calling the backend
BackendWork ==
    /\ arch = "tot_workers"
    /\ workers.main = "act"
    /\ workers' = [workers EXCEPT !.ops = @ + 1, !.main = "submit"]
    /\ WorkersFrame

NextWorkers == Submit \/ Receive \/ TimeOut \/ WorkerDone \/ BackendWork

InitWorkers ==
    /\ HelperStart("tot_workers", U_KITCHEN, <<>>)
    /\ heap = HeapIdle
    /\ workers = WorkersIdle
    /\ cot = CotIdle

SpecWorkers == InitWorkers /\ [][NextWorkers]_vars

----------------------------------------------------------------------------
(* Properties *)

ServiceCalls(log) == SelectSeq(log, LAMBDA o : o.op = "service")
DetailsCalls(log) == SelectSeq(log, LAMBDA o : o.op = "details")
FailedCalls(log) == SelectSeq(log, LAMBDA o : ~o.ok)

\* the answer kinds that report a completed request
CompletionKinds == {"finish", "probe", "fallback"}

HasNote(node, note) == \E i \in 1..Len(node.transcript) : node.transcript[i] = note
HasGuardNote(node) == HasNote(node, "GUARD:" \o GUARD_ACTION) \/ HasNote(node, "GUARD:" \o GUARD_STATUS)

\* C1 (guard soundness): whenever the ToT run returns a completion answer (a
\* planner finish, a finish probe or a synthesized fallback sentence), the
\* branch that produced it has did_service set and a successful service call
\* was made when the intent is action, and has did_details set and a details
\* read was made when the intent is status.
GuardSoundness ==
    (pc = "returned" /\ answer_kind \in CompletionKinds) =>
        /\ intent = "action" =>
             /\ answer_node.did_service
             /\ \E i \in 1..Len(ha_log) : ha_log[i].op = "service" /\ ha_log[i].ok
        /\ intent = "status" =>
             /\ answer_node.did_details
             /\ DetailsCalls(ha_log) # <<>>

\* a planner that proposes finish first got its text returned, after the service call
GuardSoundnessWitness ==
    /\ pc = "returned"
    /\ answer_kind = "finish"
    /\ intent = "action"
    /\ planner_menu = MenuFinishFirst
    /\ answer_node.did_service
    /\ result = KITCHEN_DONE

\* C2 (every architecture guards its answer): call_agent returns an answer that
\* confirms the action only after a service call was issued in the run, and an
\* answer that states the status only after a details read was made in the run.
AllArchitecturesGuard ==
    pc = "returned" =>
        /\ result = KITCHEN_DONE => ServiceCalls(ha_log) # <<>>
        /\ result = DOOR_LOCKED => DetailsCalls(ha_log) # <<>>

\* C3 (a rejected finish becomes a guard note and the search goes on): once a
\* round's pool holds the guard-note child of a rejected finish, the pool is
\* scored and pruned, the note branch is among the scored branches, and the run
\* goes on to the finish probes.
GuardNoteCompetes ==
    [][(pc = "rank" /\ \E i \in 1..Len(candidates_next) : HasGuardNote(candidates_next[i]))
         => /\ pc' = "probe"
            /\ \E j \in 1..Len(scored') : HasGuardNote(scored'[j][2])]_vars

\* C4 (a backend failure aborts only its candidate): after a backend request
\* has failed call_agent still returns a string, it never raises.
BackendFailureContained ==
    FailedCalls(ha_log) # <<>> => pc # "raised"

\* C5 (timeout resilience): when every planner call times out, for either
\* intent and any max_depth >= 0, the run never raises, makes no service call,
\* expands in at most max_depth rounds and returns a non-empty clarification.
TimeoutResilience ==
    planner_menu = MenuTimeout =>
        /\ pc # "raised"
        /\ ServiceCalls(ha_log) = <<>>
        /\ pc = "expand" => depth <= max_depth
        /\ pc = "returned" => result # "" /\ answer_kind = "clarify"

\* the scores of one round are sorted: a kept branch never scores below a discarded one
KeptOutscoreDiscarded ==
    \A i \in 1..Len(frontier), j \in (Len(frontier) + 1)..Len(scored) :
        /\ frontier[i] = scored[i][2]
        /\ _score_node(intent, frontier[i], user_text)
             >= _score_node(intent, scored[j][2], user_text)

\* C6 as stated (beam pruning): after scoring, the frontier holds at most
\* beam_size branches, for every beam_size, and every kept branch scores at
\* least as high as every discarded branch of the round.
BeamPruningAsStated ==
    scored # <<>> => Len(frontier) <= beam_size /\ KeptOutscoreDiscarded

\* C6 amended (beam pruning): after scoring, the frontier holds at most
\* max(1, beam_size) branches, the best-scored of the round's pool, and every
\* kept branch scores at least as high as every discarded branch of the round.
BeamPruning ==
    scored # <<>> =>
        /\ Len(frontier) <= Max2(1, beam_size)
        /\ Len(frontier) <= Len(scored)
        /\ KeptOutscoreDiscarded

\* a round that discarded a branch scoring strictly below the kept one
BeamPruningWitness ==
    /\ pc = "probe"
    /\ Len(scored) > Len(frontier)
    /\ scored[1][1] > scored[Len(scored)][1]
    /\ Len(scored) = Len(candidates_next)

\* C7 (status example): for 'is the front door locked', the lock in state
\* locked and a planner that reads the lock and then finishes or says nothing,
\* the request is classified as status, and a returned answer comes after
\* get_details(['lock.front_door']) and is 'Front Door is locked.'.
DoorExample ==
    (user_text = U_DOOR /\ all_states = HomeA /\ planner_menu = MenuDoor) =>
        /\ intent = "status"
        /\ pc = "returned" =>
             /\ \E i \in 1..Len(ha_log) : ha_log[i] = DetailsOp(<<DOOR_ID>>, TRUE)
             /\ result = DOOR_LOCKED

\* C8 (clarification example): for 'turn it on', whatever the planner proposes
\* and whatever the home holds, no service call is ever issued and a returned
\* answer is a clarifying question.
ItExample ==
    user_text = U_IT =>
        /\ ServiceCalls(ha_log) = <<>>
        /\ pc = "returned" => answer_kind = "clarify"

\* C9 (action example): for 'turn on the kitchen lights', the kitchen light off
\* and a planner that proposes the service call for it, with the entity id or
\* without, a returned answer comes with (light, turn_on, light.kitchen_lights)
\* as the last service call and is 'Kitchen Lights turned on.', by an accepted
\* finish as well as by the fallback.
KitchenExample ==
    (user_text = U_KITCHEN /\ all_states = HomeA /\ planner_menu = MenuKitchen
       /\ pc = "returned") =>
        /\ ServiceCalls(ha_log) # <<>>
        /\ ServiceCalls(ha_log)[Len(ServiceCalls(ha_log))]
              = ServiceOp("light", "turn_on", KITCHEN_ID, TRUE)
        /\ result = KITCHEN_DONE

\* the run ended by the fallback, after a service call whose entity id was resolved
KitchenExampleWitness ==
    /\ user_text = U_KITCHEN /\ all_states = HomeA /\ planner_menu = MenuKitchen
    /\ pc = "returned"
    /\ answer_kind = "fallback"
    /\ HasNote(answer_node, "ACTION:service_call_tool(light,turn_on," \o KITCHEN_ID \o ")")
    /\ \E i \in 1..Len(ha_log) : ha_log[i] = ListOp("light", TRUE)

\* the call-service steps the planner may propose
ProposedServiceItems ==
    { it \in UNION { { r.items[i] : i \in 1..Len(r.items) } : r \in planner_menu } :
        it.valid /\ it.tool = "service_call_tool" }

KnownIds == { all_states[i].entity_id : i \in 1..Len(all_states) }

LISTING_NOTE == "GUARD:entity_id unclear; listing candidates first."
ASK_NOTE == "ASK:Which device and action exactly?"

\* what executing the call-service step item on the branch node does
ServiceStepDetermined(node, item) ==
    \E acc \in {ServiceStep(Acc(<<>>, <<>>), node, item, depth, 0)} :
    \E child \in {acc.pool[1]}, calls \in {ServiceCalls(acc.log)},
       exp \in {_expected_on_off(user_text)} :
        /\ Len(acc.pool) = 1
        /\ Len(calls) <= 1
        /\ calls # <<>> =>
             /\ calls[1].domain # "" /\ calls[1].service # ""
             /\ calls[1].entity_id \in KnownIds
             /\ item.domain # "" => calls[1].domain = item.domain
             /\ item.service # "" => calls[1].service = item.service
             /\ item.service = "" => \/ exp = "on" /\ calls[1].service = "turn_on"
                                     \/ exp = "off" /\ calls[1].service = "turn_off"
             /\ child.did_service
             /\ child.last_obs = ServiceObs(calls[1].domain, calls[1].service, calls[1].entity_id)
        /\ calls = <<>> =>
             /\ child.did_service = node.did_service
             /\ child.did_details = node.did_details
             /\ \/ child.last_obs.kind = "candidates" /\ HasNote(child, LISTING_NOTE)
                \/ child.last_obs.kind = "ask" /\ HasNote(child, ASK_NOTE)

\* C10 (no service call with undetermined parameters): every service call
\* issued names a domain, a service and an entity the backend holds; executing
\* a call-service step on a branch adds one child, which either made the one
\* service call (the planner's service, or the one of the user text's on/off
\* polarity when the planner gave none), or made none and carries a domain
\* listing or an ask-user observation with the parent's did_service.
NoGuessedServiceCall ==
    /\ \A i \in 1..Len(ha_log) :
          ha_log[i].op = "service" =>
             /\ ha_log[i].domain # "" /\ ha_log[i].service # ""
             /\ ha_log[i].entity_id \in KnownIds
    /\ pc = "expand" =>
          \A item \in ProposedServiceItems : ServiceStepDetermined(frontier[node_idx], item)

\* a call-service step without an entity that could be resolved became a listing
NoGuessedServiceCallWitness ==
    /\ pc = "rank"
    /\ ProposedServiceItems # {}
    /\ ServiceCalls(ha_log) = <<>>
    /\ \E i \in 1..Len(candidates_next) :
          /\ HasNote(candidates_next[i], LISTING_NOTE)
          /\ candidates_next[i].last_obs.kind = "candidates"
          /\ ~candidates_next[i].did_service

\* the candidate steps the actor executes on the branch node for one planner reply
ExecutedItems(node, reply) ==
    Take(SortByPriority(
             FilterPlans(Take(PlansOf(_planner_call_with_timeout(reply)), k_per_node), {},
                         node, depth, [guarded |-> <<>>, filtered |-> <<>>]).filtered),
         k_per_node)

BackendTools == {"get_entities_by_domain_tool", "get_entities_details_tool", "service_call_tool"}

\* the observation that the single backend operation op gives
ObsOf(op) ==
    CASE op.op = "list" ->
            _summarize_entities_for_obs(get_entities_by_domain(all_states, op.domain), user_text, 6)
      [] op.op = "details" ->
            _summarize_details_for_obs(get_entities_details(all_states, op.entity_ids), 3)
      [] OTHER -> ServiceObs(op.domain, op.service, op.entity_id)

\* executing the backend step item on the branch node makes one backend operation
\* and one child, whose observation is the one of that operation
OneOperation(node, item) ==
    \E acc \in {ActStep(Acc(<<>>, <<>>), node, item, depth, 0)} :
        /\ Len(acc.log) = 1
        /\ Len(acc.pool) = 1
        /\ acc.pool[1].last_obs = ObsOf(acc.log[1])

\* C11 (one tool per step): every list-by-domain, get-details or call-service
\* step the actor executes performs exactly one backend operation, and the
\* observation of its child is derived from that operation, also for a
\* call-service step without a domain or without a known entity_id.
OneOperationPerStep ==
    pc = "expand" =>
        \A reply \in planner_menu :
            \A i \in 1..Len(ExecutedItems(frontier[node_idx], reply)) :
                ExecutedItems(frontier[node_idx], reply)[i].tool \in BackendTools =>
                    OneOperation(frontier[node_idx], ExecutedItems(frontier[node_idx], reply)[i])

\* the branches of a pool can all be scored
Scorable(pool) == \A i \in 1..Len(pool) : ~_score_node_raises(intent, pool[i])

\* has the branch made the call its intent requires?
RequiredCallDone(node) ==
    (intent = "action" /\ node.did_service) \/ (intent = "status" /\ node.did_details)

\* C12 (scorer dominance of the guard term): in the pool of one round, a branch
\* that has made the call its intent requires (did_service for action,
\* did_details for status) scores strictly higher than every branch that has
\* not, so that pruning never keeps the second and drops the first.
ScorerDominance ==
    (pc = "rank" /\ Scorable(candidates_next)) =>
        \A i, j \in 1..Len(candidates_next) :
            (RequiredCallDone(candidates_next[i]) /\ ~RequiredCallDone(candidates_next[j])) =>
                _score_node(intent, candidates_next[i], user_text)
                    > _score_node(intent, candidates_next[j], user_text)

\* how a ToT run ended: the accepted finish text, a fallback, or an exception
TotOutcome ==
    IF pc = "raised" THEN <<"raised", error>>
    ELSE IF answer_kind \in {"finish", "probe"} THEN <<"finish", result>>
    ELSE <<"fallback", "">>

\* how a ReAct run ended, every answer that is not a finish text counting as a fallback
ReactOutcome ==
    IF react.pc = "raised" THEN <<"raised", react.error>>
    ELSE IF react.kind = "finish" THEN <<"finish", react.result>>
    ELSE <<"fallback", "">>

\* C13 (ReAct is the ToT engine with beam width 1): for the same user text, the
\* same planner replies and the same backend, answering every request, the
\* finished runs of ReAct's call_agent and of ToT's call_agent with beam_size 1,
\* k_per_node 1 and max_depth 3 have issued the same sequence of backend
\* operations and ended in the same outcome.
EnginesAgree ==
    (pc \in {"returned", "raised"} /\ react.pc \in {"returned", "raised"}
       /\ FailedCalls(ha_log) = <<>> /\ FailedCalls(react.log) = <<>>) =>
        /\ ha_log = react.log
        /\ TotOutcome = ReactOutcome

\* C14 (sanitizer idempotence): for every text t the sanitizer's output is a
\* fixed point of the sanitizer: _sanitize_output(_sanitize_output(t)) equals
\* _sanitize_output(t).
SanitizerIdempotent ==
    (arch = "_sanitize_output" /\ pc = "done") => _sanitize_output(result) = result

\* the token-overlap score of the i-th candidate against the query
OverlapScore(query, cands, i) ==
    _score_match(query, cands[i].entity_id \o " " \o cands[i].name)

\* C15 (resolver determinism): _best_entity_from_candidates returns null exactly
\* when the candidate list is empty or every candidate scores 0 against the
\* query, and otherwise the entity_id of the candidate with the highest
\* token-overlap score against 'entity_id name', the earliest in list order
\* among those of the highest score.
ResolverPicksBest ==
    (arch = "_best_entity_from_candidates" /\ pc = "done") =>
        \E cands \in {frontier[1].last_obs.candidates} :
            /\ result = "" <=> \A i \in 1..Len(cands) : OverlapScore(user_text, cands, i) = 0
            /\ result # "" =>
                 \E i \in 1..Len(cands) :
                    /\ result = cands[i].entity_id
                    /\ OverlapScore(user_text, cands, i) > 0
                    /\ \A j \in 1..Len(cands) :
                          OverlapScore(user_text, cands, j) <= OverlapScore(user_text, cands, i)
                    /\ \A j \in 1..(i - 1) :
                          OverlapScore(user_text, cands, j) < OverlapScore(user_text, cands, i)

\* two candidates tie for the highest score behind a weaker one; the earlier of the two is returned
ResolverPicksBestWitness ==
    /\ arch = "_best_entity_from_candidates" /\ pc = "done"
    /\ user_text = U_KITCHEN
    /\ frontier[1].last_obs.candidates
         = << [entity_id |-> DOOR_ID, name |-> "Front Door"],
              [entity_id |-> "switch.kitchen_lights_2", name |-> "Kitchen Lights"],
              [entity_id |-> KITCHEN_ID, name |-> "Kitchen Lights"] >>
    /\ result = "switch.kitchen_lights_2"

\* the phrases of the classifier as the specification lists them
ActionPhrases ==
    {"turn on", "turn off", "switch on", "switch off", "open", "close", "lock", "unlock",
     "set ", "increase", "decrease", "toggle", "dim", "brighten"}

\* C16 (intent classifier): _infer_intent returns 'action' if and only if the
\* lower-cased text contains one of the fixed phrases as a substring, and
\* 'status' otherwise, also for the empty text; the call changes nothing else.
IntentClassifier ==
    (arch = "_infer_intent" /\ pc = "done") =>
        /\ intent \in {"action", "status"}
        /\ intent = "action" <=> \E ph \in ActionPhrases : Contains(lower(user_text), ph)
        /\ ha_log = <<>> /\ result = "" /\ error = ""

\* an upper-case phrase that is not an on/off phrase makes the text an action
IntentClassifierWitness ==
    /\ arch = "_infer_intent" /\ pc = "done"
    /\ user_text = "Dimlamp"
    /\ intent = "action"

\* the child an ask-user step is to leave on the branch node in the current round
AskChildOf(node, item) ==
    With(IF item.message # "" THEN item.message ELSE DEFAULT_ASK, LAMBDA msg :
        Node(Append(node.transcript, "ASK:" \o msg), AskObs(msg),
             node.did_service, node.did_details, depth))

HasTool(items, tool) == \E i \in 1..Len(items) : items[i].tool = tool

\* the ask-user steps among items each add their child to the pool, without a backend operation
AskChildrenAdded(node, items, acc) ==
    \A i \in 1..Len(items) :
        items[i].tool = "ask_user" =>
            /\ \E n \in (Len(candidates_next) + 1)..Len(acc.pool) :
                  acc.pool[n] = AskChildOf(node, items[i])
            /\ ActStep(Acc(<<>>, <<>>), node, items[i], depth, 0)
                  = [Acc(<<AskChildOf(node, items[i])>>, <<>>) EXCEPT !.status = "run"]

\* a reply whose executed steps hold an ask-user and no finish leaves the run going
AskKeepsRunning(node, reply) ==
    \E items \in {ExecutedItems(node, reply)} :
        (HasTool(items, "ask_user") /\ ~HasTool(items, "finish")) =>
            \E acc \in {Expand(node, reply, depth, candidates_next, ha_log, 0)} :
                /\ acc.status = "run"
                /\ AskChildrenAdded(node, items, acc)

IsAskChild(node) == node.last_obs.kind = "ask"

\* C17 (ask-user is a branch, not an answer): an ask-user step, proposed by the
\* planner or substituted for a planner timeout, does not end the run; it adds
\* one child with the ask-user message as observation and the parent's
\* did_service and did_details, performs no backend operation, and the child
\* is scored with the other branches of the round's pool.
AskUserIsBranch ==
    /\ pc = "expand" => \A reply \in planner_menu : AskKeepsRunning(frontier[node_idx], reply)
    /\ pc = "probe" =>
          \A i \in 1..Len(candidates_next) :
              IsAskChild(candidates_next[i]) =>
                  \E j \in 1..Len(scored) :
                      scored[j] = <<_score_node(intent, candidates_next[i], user_text),
                                    candidates_next[i]>>

\* a round whose pool held a listing and the ask-user child of the same reply, both scored
AskUserIsBranchWitness ==
    /\ pc = "probe"
    /\ planner_menu = MenuAsk
    /\ Len(scored) >= 2
    /\ \E j \in 1..Len(scored) : scored[j][2].last_obs = AskObs("Which lamp?")
    /\ \E j \in 1..Len(scored) : scored[j][2].last_obs.kind = "candidates"
    /\ ha_log = <<ListOp("light", TRUE)>>

\* is item a finish that passes the guard against the flags of node?
AcceptedFinish(node, item) ==
    /\ item.valid
    /\ item.tool = "finish"
    /\ _finish_guard(intent, node.did_details, node.did_service, item) = ""

\* the candidates of a reply: the first k_per_node plans
CandidatesOf(reply) == Take(PlansOf(_planner_call_with_timeout(reply)), k_per_node)

\* the first accepted finish among the candidates
FirstAccepted(node, items) ==
    items[CHOOSE i \in 1..Len(items) :
             /\ AcceptedFinish(node, items[i])
             /\ \A j \in 1..(i - 1) : ~AcceptedFinish(node, items[j])]

\* the answer an accepted finish is to give
FinishAnswer(item) ==
    With(_sanitize_output(item.final), LAMBDA final : IF final = "" THEN "Done." ELSE final)

\* a reply with an accepted finish makes the expansion of node return that finish's
\* answer, unless a backend call of an operative candidate of the same reply raised
AcceptedFinishReturns(node, reply) ==
    \E items \in {CandidatesOf(reply)} :
        (\E i \in 1..Len(items) : AcceptedFinish(node, items[i])) =>
            \A fail_at \in 0..MaxFailAt :
                \E acc \in {Expand(node, reply, depth, candidates_next, ha_log, fail_at)} :
                    /\ acc.status \in {"return", "raise"}
                    /\ fail_at = 0 => acc.status = "return"
                    /\ acc.status = "return" => acc.text = FinishAnswer(FirstAccepted(node, items))

\* the step that returns a planner finish is a step of the node loop and leaves the
\* frontier and the scores of the round before as they were
FinishBeforeScoring ==
    (pc # "returned" /\ pc' = "returned" /\ answer_kind' = "finish") =>
        /\ pc = "expand"
        /\ answer_node' = frontier[node_idx]
        /\ \E reply \in planner_menu :
              /\ \E i \in 1..Len(CandidatesOf(reply)) :
                    AcceptedFinish(frontier[node_idx], CandidatesOf(reply)[i])
              /\ result' = FinishAnswer(FirstAccepted(frontier[node_idx], CandidatesOf(reply)))
        /\ UNCHANGED <<frontier, scored, candidates_next, depth>>

\* C18 (terminal transition a): when a candidate of the branch being expanded is
\* a finish that passes the guard against the branch's flags, call_agent returns
\* in that step of the round, before the round's scoring and pruning, the
\* sanitized text of the finish, "Done." when that is empty; branches are
\* expanded in frontier order, so the first branch with such a candidate wins.
AcceptedFinishEndsRun ==
    /\ [](pc = "expand" =>
            \A reply \in planner_menu : AcceptedFinishReturns(frontier[node_idx], reply))
    /\ [][FinishBeforeScoring]_vars

\* two retained branches that both made their service call; the first one's
\* finish with blank text ended the run with "Done."
AcceptedFinishEndsRunWitness ==
    /\ pc = "returned"
    /\ answer_kind = "finish"
    /\ result = "Done."
    /\ Len(frontier) = 2
    /\ answer_node = frontier[1]
    /\ frontier[1].did_service
    /\ frontier[2].did_service
    /\ depth = 2

\* does the branch satisfy the guard of its intent?
GuardSatisfied(node) ==
    \/ intent = "action" /\ node.did_service
    \/ intent = "status" /\ node.did_details

\* a reply that is one finish object whose sanitized text is not empty
FinishObject(reply) ==
    /\ reply.kind = "object"
    /\ reply.items[1].valid
    /\ reply.items[1].tool = "finish"
    /\ _sanitize_output(reply.items[1].final) # ""

\* the probe loop moves to the next retained branch, or leaves for the next round
\* (the fallback after the last round)
ProbeContinues ==
    /\ pc' \in {"probe", "expand", "fallback"}
    /\ IF node_idx < Len(frontier)
       THEN pc' = "probe" /\ node_idx' = node_idx + 1 /\ depth' = depth
       ELSE /\ node_idx' = 1
            /\ IF depth < max_depth
               THEN pc' = "expand" /\ depth' = depth + 1
               ELSE pc' = "fallback" /\ depth' = depth

\* one step of the probe loop, for the branch frontier[node_idx]
ProbeStepAsSpecified ==
    /\ UNCHANGED <<frontier, ha_log, scored>>
    /\ IF GuardSatisfied(frontier[node_idx])
       THEN /\ planner_calls' = planner_calls + 1
            /\ \/ /\ pc' = "returned"
                  /\ answer_kind' = "probe"
                  /\ answer_node' = frontier[node_idx]
                  /\ \E reply \in planner_menu :
                        /\ FinishObject(reply)
                        /\ result' = _sanitize_output(reply.items[1].final)
               \/ /\ ProbeContinues
                  /\ \E reply \in planner_menu : ~FinishObject(reply)
       ELSE /\ planner_calls' = planner_calls
            /\ ProbeContinues

\* C19 (terminal transition b): the probe loop starts after the pruning step of
\* a round at the first retained branch; it sends one finish probe for every
\* retained branch that satisfies the guard of the intent and none for any
\* other, in frontier order; the run returns the sanitized text of the probe
\* exactly when the reply is one finish object with non-empty sanitized text,
\* and goes on with the next branch or the next round otherwise.
FinishProbeRule ==
    /\ [](pc = "probe" => \A reply \in planner_menu :
            (ProbeFinal(_planner_call_with_timeout(reply)) # "") <=> FinishObject(reply))
    /\ [][(pc # "probe" /\ pc' = "probe") =>
            (pc = "rank" /\ node_idx' = 1 /\ frontier' = Values(Take(scored', Max2(1, beam_size))))]_vars
    /\ [][pc = "probe" => ProbeStepAsSpecified]_vars

\* the first retained branch had not made its service call and was passed over,
\* the second had, was probed, and the probe's finish ended the run
FinishProbeRuleWitness ==
    /\ pc = "returned"
    /\ answer_kind = "probe"
    /\ Len(frontier) = 2
    /\ ~frontier[1].did_service
    /\ frontier[2].did_service
    /\ answer_node = frontier[2]
    /\ intent = "action"
    /\ planner_calls = 2

\* the names a sentence may give the entity: its friendly name, or its id made a title
NamesOf(entity_id) ==
    {all_states[i].friendly_name : i \in {j \in 1..Len(all_states) : all_states[j].entity_id = entity_id}}
    \cup {title(replace_char(after_last_dot(entity_id), "_", " "))}

GenericAnswers == {"Action completed.", "Status read.", NOT_SURE}

\* the sentence the fallback is to synthesize from the last observation of branch best
SentenceAsStated(best, text) ==
    IF intent = "status" /\ best.last_obs.kind = "details" /\ best.last_obs.details # <<>>
    THEN text = best.last_obs.details[1].name \o " is " \o lower(best.last_obs.details[1].state) \o "."
    ELSE IF intent = "action" /\ best.last_obs.kind = "service" /\ best.last_obs.service = "turn_on"
    THEN \E n \in NamesOf(best.last_obs.entity_id) : text = n \o " turned on."
    ELSE IF intent = "action" /\ best.last_obs.kind = "service" /\ best.last_obs.service = "turn_off"
    THEN \E n \in NamesOf(best.last_obs.entity_id) : text = n \o " turned off."
    ELSE text \in GenericAnswers

\* C20 (terminal transition c): an answer given after the rounds ended without
\* an accepted finish comes from a highest-scoring branch of the last retained
\* frontier: "<Name> is <state>." for status with a details observation,
\* "<Name> turned on." after a turn_on call and "<Name> turned off." after a
\* turn_off call for action, a generic sentence otherwise.
FallbackSentences ==
    (pc = "returned" /\ answer_kind \in {"fallback", "clarify"} /\ answer_node # NoNode) =>
        /\ \E i \in 1..Len(frontier) : frontier[i] = answer_node
        /\ \A i \in 1..Len(frontier) :
              _score_node(intent, answer_node, user_text) >= _score_node(intent, frontier[i], user_text)
        /\ SentenceAsStated(answer_node, result)

IsPrefix(a, b) == Len(a) <= Len(b) /\ \A i \in 1..Len(a) : a[i] = b[i]

\* what a branch shows of itself: transcript, flags, last observation
BranchView(h, a) ==
    <<h.lists[h.dicts[a].transcript], h.dicts[a].did_service, h.dicts[a].did_details,
      h.dicts[a].last_obs>>

\* every node made from another one holds that node's transcript as a prefix of its own
ChildExtendsParent(h) ==
    \A a \in 1..Len(h.dicts) :
        h.parent[a] # 0 =>
            IsPrefix(h.lists[h.dicts[h.parent[a]].transcript], h.lists[h.dicts[a].transcript])

\* a step leaves every node but the child being filled as it was
OthersUntouched ==
    \A a \in 1..Len(heap.dicts) :
        a # heap.child => BranchView(heap', a) = BranchView(heap, a)

\* C21 (branch copy semantics): every child's transcript has its parent's
\* transcript as a prefix, and making or filling a child, a guard-note child
\* included, changes the transcript, the flags and the last observation of no
\* other branch: not of its parent, not of a sibling.
BranchCopySemantics ==
    /\ [](ChildExtendsParent(heap))
    /\ [][OthersUntouched]_vars

\* a parent with a transcript of its own whose guard-note child and whose
\* service child are both in the pool
BranchCopySemanticsWitness ==
    /\ arch = "tot_objects"
    /\ heap.child = 0
    /\ \E a, b \in 1..Len(heap.dicts) :
          /\ a # b
          /\ heap.parent[a] # 0
          /\ heap.parent[a] = heap.parent[b]
          /\ heap.lists[heap.dicts[heap.parent[a]].transcript] # <<>>
          /\ heap.dicts[a].last_obs = heap.dicts[heap.parent[a]].last_obs
          /\ Len(heap.lists[heap.dicts[a].transcript])
                = Len(heap.lists[heap.dicts[heap.parent[a]].transcript]) + 1
          /\ heap.dicts[b].did_service
          /\ ~heap.dicts[heap.parent[a]].did_service
          /\ \E i, j \in 1..Len(heap.pool) : heap.pool[i] = a /\ heap.pool[j] = b

\* the branches alive in a state: the frontier and the pool of the round
LiveBranches ==
    {frontier[i] : i \in 1..Len(frontier)} \cup {candidates_next[i] : i \in 1..Len(candidates_next)}

\* the transcript entries of a branch that record an executed tool, by entry prefix
ToolEntries(node, entry_prefix) ==
    {i \in 1..Len(node.transcript) : StartsWith(node.transcript[i], entry_prefix)}

SERVICE_ENTRY == "ACTION:service_call_tool("
DETAILS_ENTRY == "ACTION:get_entities_details_tool("

\* the backend answered a call-service with these arguments
ServiceReturned(entry) ==
    \E n \in 1..Len(ha_log) :
        /\ ha_log[n].op = "service"
        /\ ha_log[n].ok
        /\ entry = SERVICE_ENTRY \o ha_log[n].domain \o "," \o ha_log[n].service \o ","
                      \o ha_log[n].entity_id \o ")"

\* the flags of a branch say what its transcript, its own steps after those of
\* its ancestors, records
FlagsMatchHistory(node) ==
    /\ node.did_service <=> ToolEntries(node, SERVICE_ENTRY) # {}
    /\ node.did_details <=> ToolEntries(node, DETAILS_ENTRY) # {}
    /\ \A i \in ToolEntries(node, SERVICE_ENTRY) : ServiceReturned(node.transcript[i])

\* a child of the round has a parent in the frontier whose raised flags it keeps
FlagsInherited(child) ==
    \E i \in 1..Len(frontier) :
        /\ IsPrefix(frontier[i].transcript, child.transcript)
        /\ frontier[i].did_service => child.did_service
        /\ frontier[i].did_details => child.did_details

\* C22 (completion flags): for every branch of a frontier or pool, did_service
\* holds exactly when a call-service returned from the backend on the branch or
\* an ancestor, did_details exactly when a get-details step was executed on
\* the branch or an ancestor, and a child keeps every flag its parent has.
CompletionFlags ==
    arch = "tot" =>
        /\ \A node \in LiveBranches : FlagsMatchHistory(node)
        /\ pc \in {"expand", "rank"} =>
              \A i \in 1..Len(candidates_next) : FlagsInherited(candidates_next[i])

\* a second-round child that lists the lights and has did_service from its parent
CompletionFlagsWitness ==
    /\ arch = "tot"
    /\ pc = "rank"
    /\ depth = 2
    /\ \E i \in 1..Len(candidates_next) :
          /\ candidates_next[i].did_service
          /\ candidates_next[i].last_obs.kind = "candidates"
          /\ ToolEntries(candidates_next[i], SERVICE_ENTRY) = {1}

\* a reply without parseable JSON, or with an empty list
NoPlans(reply) ==
    \/ reply.kind \in {"prose", "broken"}
    \/ reply.kind \in {"array", "array_comma"} /\ reply.items = <<>>

\* such a reply leaves the pool and the backend as they were and the node loop running
NoPlansNoChild(node, reply) ==
    NoPlans(reply) =>
        \A fail_at \in 0..MaxFailAt :
            Expand(node, reply, depth, candidates_next, ha_log, fail_at)
                = Acc(candidates_next, ha_log)

\* a node step that adds no child and returns nothing raises no error and hands
\* over to the next frontier node, after the last one to the ranking of the round
ChildlessStepGoesOn ==
    (pc = "expand" /\ candidates_next' = candidates_next /\ pc' # "returned" /\ ha_log' = ha_log) =>
        /\ error' = error
        /\ IF node_idx < Len(frontier)
           THEN pc' = "expand" /\ node_idx' = node_idx + 1
           ELSE pc' = "rank"
        /\ UNCHANGED <<frontier, depth>>

\* a round with a child in its pool is ranked and goes on to the probes
RoundWithChildGoesOn ==
    (pc = "rank" /\ candidates_next # <<>> /\ Scorable(candidates_next)) =>
        /\ pc' = "probe"
        /\ error' = error
        /\ \A i \in 1..Len(frontier') : \E j \in 1..Len(candidates_next) :
              frontier'[i] = candidates_next[j]

\* C23 (planner parse failure): a branch whose planner reply holds no parseable
\* JSON, or an empty list, gets no child in that round and raises no error;
\* the node loop goes on with the other branches of the frontier, and the
\* round is ranked and continued from whenever some branch produced a child.
ParseFailureSkipsBranch ==
    /\ [](pc = "expand" =>
            \A reply \in planner_menu : NoPlansNoChild(frontier[node_idx], reply))
    /\ [][ChildlessStepGoesOn]_vars
    /\ [][RoundWithChildGoesOn]_vars

\* the second round of a frontier of two: the first branch got a reply without
\* plans, the second branch produced the children that wait to be ranked
ParseFailureSkipsBranchWitness ==
    /\ planner_menu = MenuGarbled
    /\ pc = "rank"
    /\ depth = 2
    /\ planner_calls = 5
    /\ error = ""
    /\ Len(frontier) = 2
    /\ Len(candidates_next) = 2
    /\ \A i \in 1..2 :
          /\ IsPrefix(frontier[2].transcript, candidates_next[i].transcript)
          /\ ~IsPrefix(frontier[1].transcript, candidates_next[i].transcript)

KnownTools ==
    {"service_call_tool", "get_entities_details_tool", "get_entities_by_domain_tool",
     "finish", "ask_user"}

\* the distinct steps among the first k_per_node items of a reply: objects with
\* a tool the actor knows
DistinctSteps(reply) ==
    {reply.items[i] : i \in {j \in 1..Len(reply.items) :
                                /\ j <= k_per_node
                                /\ reply.items[j].valid
                                /\ reply.items[j].tool \in KnownTools}}

\* an expansion that goes through all candidates of a reply adds one child for
\* each distinct step among its first k_per_node items, and nothing else
OneChildPerStep(node, reply) ==
    reply.kind \in {"array", "array_comma", "object"} =>
        \E acc \in {Expand(node, reply, depth, candidates_next, ha_log, 0)} :
            /\ Len(acc.pool) - Len(candidates_next) <= k_per_node
            /\ acc.status = "run" =>
                  Len(acc.pool) - Len(candidates_next) = Cardinality(DistinctSteps(reply))

\* C24 (candidate filtering): of a planner reply only the first k_per_node
\* items are considered, items that are no objects with a tool are dropped,
\* equal items are processed once, and so one parent adds at most k_per_node
\* children to the pool in a round.
CandidateFiltering ==
    /\ [](pc = "expand" =>
            \A reply \in planner_menu : OneChildPerStep(frontier[node_idx], reply))
    /\ [][pc = "expand" =>
            Len(candidates_next') - Len(candidates_next) \in 0..k_per_node]_vars

\* k_per_node = 2 and a reply that lists the lights twice and then asks: the
\* round has one child, from one listing
CandidateFilteringWitness ==
    /\ planner_menu = MenuRepeat
    /\ k_per_node = 2
    /\ pc = "rank"
    /\ depth = 1
    /\ Len(candidates_next) = 1
    /\ candidates_next[1].last_obs.kind = "candidates"
    /\ ha_log = <<ListOp("light", TRUE)>>

\* does the backend hold an entity of domain d?
HoldsEntityOf(d) ==
    \E i \in 1..Len(all_states) : StartsWith(all_states[i].entity_id, d \o ".")

\* the first of domains the backend holds an entity of, "" when there is none
RECURSIVE FirstHeldDomain(_)
FirstHeldDomain(domains) ==
    IF domains = <<>> THEN ""
    ELSE IF HoldsEntityOf(Head(domains)) THEN Head(domains)
    ELSE FirstHeldDomain(Tail(domains))

\* C25 (domain inference): for a call-service candidate without a domain the
\* domain chosen is the first one, in _likely_domains order, of which the
\* backend holds an entity; it stays undetermined when there is none.
DomainInference ==
    (arch = "tot" /\ pc = "expand") =>
        \A reply \in planner_menu :
            \A item \in {ExecutedItems(frontier[node_idx], reply)[i] :
                            i \in 1..Len(ExecutedItems(frontier[node_idx], reply))} :
                (item.tool = "service_call_tool" /\ item.domain = "") =>
                    ServiceDomain(Acc(candidates_next, ha_log), item, 0).domain
                        = FirstHeldDomain(_likely_domains(user_text, intent))

\* C26 (frontier generations): the pool of round r holds branches of depth r
\* only, so the scorer compares branches of one depth; once the round is
\* ranked the frontier holds branches of that pool only, each of depth r, and
\* while round r is expanded the frontier is the one left by the round before.
FrontierGenerations ==
    arch = "tot" =>
        /\ \A i \in 1..Len(candidates_next) : candidates_next[i].depth = depth
        /\ pc = "probe" =>
              \A i \in 1..Len(frontier) :
                  /\ frontier[i].depth = depth
                  /\ \E j \in 1..Len(candidates_next) : frontier[i] = candidates_next[j]
        /\ pc = "probe" => \A i \in 1..Len(scored) : scored[i][2].depth = depth
        /\ pc \in {"expand", "rank"} =>
              \A i \in 1..Len(frontier) : frontier[i].depth = depth - 1

\* the frontier after the second round: two branches, both made in that round
FrontierGenerationsWitness ==
    /\ arch = "tot"
    /\ pc = "probe"
    /\ depth = 2
    /\ Len(frontier) = 2
    /\ Len(candidates_next) > 2
    /\ \A i \in 1..2 : frontier[i].depth = 2 /\ Len(frontier[i].transcript) >= 4

\* the score of a branch as the formula gives it, times 20
ScoreAsStated(node) ==
    10 * _score_match(user_text, join(" ", node.transcript) \o " " \o json_dumps(node.last_obs))
    + (IF intent = "action" /\ node.did_service THEN 80 ELSE 0)
    + (IF intent = "status" /\ node.did_details THEN 60 ELSE 0)
    - 5 * node.depth
    + (IF intent = "action" /\ node.last_obs.kind = "candidates" /\ node.last_obs.candidates # <<>>
       THEN 12 ELSE 0)

\* the place of pool[i] after a stable descending sort by ScoreAsStated
StableRank(pool, i) ==
    1 + Cardinality({j \in 1..Len(pool) : ScoreAsStated(pool[j]) > ScoreAsStated(pool[i])})
      + Cardinality({j \in 1..(i - 1) : ScoreAsStated(pool[j]) = ScoreAsStated(pool[i])})

\* the ranking of a pool gives every branch of it its score and its place
RankedAsStated(pool) ==
    /\ pc' = "probe"
    /\ Len(scored') = Len(pool)
    /\ \A i \in 1..Len(pool) :
          scored'[StableRank(pool, i)] = <<ScoreAsStated(pool[i]), pool[i]>>

\* C27 (branch score): the score of a branch is 0.5 x token overlap of the user
\* text with transcript and serialized observation, + 4.0 for action with
\* did_service, + 3.0 for status with did_details, - 0.25 x depth, + 0.6 for
\* action with candidates in the last observation; every branch that enters
\* the pool gets a score, and equal scores keep their pool order.
BranchScore ==
    [][(arch = "tot" /\ pc = "rank" /\ candidates_next # <<>>)
          => RankedAsStated(candidates_next)]_vars

\* the same for the pools the scorer can go through
BranchScoreWhereDefined ==
    [][(arch = "tot" /\ pc = "rank" /\ candidates_next # <<>> /\ Scorable(candidates_next))
          => RankedAsStated(candidates_next)]_vars

\* has the ReAct run made the call its intent requires?
ReactFlag ==
    \/ react_infer_intent(user_text) = "action" /\ react.did_service
    \/ react_infer_intent(user_text) = "status" /\ react.did_details

\* a reply that is one finish object
ReactFinishReply(reply) ==
    /\ reply.kind = "object"
    /\ reply.items[1].valid
    /\ reply.items[1].tool = "finish"

CLARIFICATIONS == {NOT_CONFIRMED, NOT_READ, NOT_SURE}

\* a finish that comes before the required call uses up the step, leaves a GUARD
\* entry and nothing else
RejectedFinishIsNote(reply) ==
    (ReactFinishReply(reply) /\ ~ReactFlag) =>
        \A fails \in BOOLEAN :
            \E r \in {ReactIteration(react, reply, fails)} :
                /\ r.pc = (IF react.step < MAX_STEPS THEN "step" ELSE "fallback")
                /\ r.step = react.step + 1
                /\ Len(r.transcript) = Len(react.transcript) + 1
                /\ StartsWith(r.transcript[Len(r.transcript)], "GUARD:")
                /\ r.log = react.log
                /\ r.result = ""

\* one step of the loop: one planner call, at most one backend operation, and
\* the planner's finish text only after the required call
ReactStepAsStated ==
    react.pc = "step" =>
        /\ react'.planner_calls = react.planner_calls + 1
        /\ Len(react'.log) - Len(react.log) \in {0, 1}
        /\ (react'.pc = "returned" /\ react'.kind = "finish") =>
              /\ ReactFlag
              /\ \E reply \in planner_menu :
                    /\ ReactFinishReply(reply)
                    /\ react'.result = _sanitize_output(reply.items[1].final)

\* C28 (ReAct loop): call_agent of react.py makes at most MAX_STEPS planner
\* calls and at most one backend operation per step; a finish the guard
\* rejects uses up one step, appends a GUARD entry and makes no backend
\* operation; the planner's finish text is returned only when did_service
\* (action) or did_details (status) already holds; after MAX_STEPS steps
\* without a return the run answers with a clarification string.
ReactLoop ==
    /\ [](arch = "react" => react.planner_calls <= MAX_STEPS)
    /\ [](react.pc = "step" => \A reply \in planner_menu : RejectedFinishIsNote(reply))
    /\ [](react.pc = "fallback" => react.planner_calls = MAX_STEPS)
    /\ [][ReactStepAsStated]_vars
    /\ [][react.pc = "fallback" =>
            (react'.pc = "returned" /\ react'.result \in CLARIFICATIONS
             /\ react'.log = react.log)]_vars

\* a status run: a finish that came too early left its note, the details were
\* read, and the third step's finish was returned
ReactLoopWitness ==
    /\ arch = "react"
    /\ react.pc = "returned"
    /\ react.kind = "finish"
    /\ react.result = DOOR_LOCKED
    /\ react.planner_calls = MAX_STEPS
    /\ react.did_details
    /\ Len(react.log) = 1
    /\ Len(react.transcript) = 3
    /\ StartsWith(react.transcript[1], "GUARD:")

\* the candidate list the call-service step item consults on the branch node
ConsultedList(node, item) ==
    ServiceCandidates(ServiceDomain(Acc(<<>>, <<>>), item, 0),
                      IF item.domain = "" /\ ServiceDomain(Acc(<<>>, <<>>), item, 0).domain # ""
                      THEN _summarize_entities_for_obs(
                               ServiceDomain(Acc(<<>>, <<>>), item, 0).ents, user_text, 6)
                      ELSE NoObs,
                      node, 0).candidates

\* a service call as the step item may issue it on the branch node
CallFromList(call, node, item) ==
    /\ call.domain # ""
    /\ call.service # ""
    /\ call.entity_id \in CandidateIds(ConsultedList(node, item))
    /\ item.entity_id \notin CandidateIds(ConsultedList(node, item)) =>
          call.entity_id # item.entity_id

\* the service calls of one step all come from a proposed call-service step
NewCallsFromList ==
    \A j \in (Len(ha_log) + 1)..Len(ha_log') :
        ha_log'[j].op = "service" =>
            /\ pc = "expand"
            /\ \E item \in ProposedServiceItems :
                  CallFromList(ha_log'[j], frontier[node_idx], item)

\* C29 (service calls are made on listed entities): every service call ToT
\* issues has a non-empty domain, a non-empty service and an entity_id found
\* in the candidate list consulted in that step (the child's own listing, else
\* the candidates of the parent's last observation, else a fresh listing of the
\* domain); an entity_id of the planner that is not in that list is never
\* passed to the backend.
ServiceCallFromCandidates ==
    /\ [](pc = "expand" =>
            \A item \in ProposedServiceItems, fail_at \in 0..MaxFailAt :
                \E acc \in {ServiceStep(Acc(<<>>, <<>>), frontier[node_idx], item, depth, fail_at)} :
                    \A j \in 1..Len(acc.log) :
                        acc.log[j].op = "service" =>
                            CallFromList(acc.log[j], frontier[node_idx], item))
    /\ [][NewCallsFromList]_vars

\* the planner named an entity id that is in no listing; the call went to the
\* listed light instead
ServiceCallFromCandidatesWitness ==
    /\ planner_menu = MenuWrongId
    /\ pc = "rank"
    /\ Len(ServiceCalls(ha_log)) = 1
    /\ ServiceCalls(ha_log)[1].entity_id = KITCHEN_ID
    /\ ServiceCalls(ha_log)[1].ok
    /\ \E i \in 1..Len(candidates_next) :
          /\ candidates_next[i].did_service
          /\ candidates_next[i].last_obs = ServiceObs("light", "turn_on", KITCHEN_ID)

\* C30 (service calls stay in their domain): every service call ToT issues
\* targets an entity of the called domain: the entity_id passed to the backend
\* begins with the domain and a dot.
ServiceCallInDomain ==
    \A i \in 1..Len(ha_log) :
        ha_log[i].op = "service" =>
            StartsWith(ha_log[i].entity_id, ha_log[i].domain \o ".")

\* the candidates of a planner reply that pass the guard on the branch node
PassingItems(node, reply) ==
    FilterPlans(Take(PlansOf(_planner_call_with_timeout(reply)), k_per_node), {}, node, depth,
                [guarded |-> <<>>, filtered |-> <<>>]).filtered

\* the service calls the call-service candidates among items make, each taken alone
RECURSIVE CallsOfEach(_, _)
CallsOfEach(node, items) ==
    IF items = <<>> THEN <<>>
    ELSE IF Head(items).tool = "service_call_tool"
    THEN ServiceCalls(ServiceStep(Acc(<<>>, <<>>), node, Head(items), depth, 0).log)
         \o CallsOfEach(node, Tail(items))
    ELSE CallsOfEach(node, Tail(items))

\* expanding a branch makes the call of every resolvable call-service candidate
ExecutesEveryCall(node, reply) ==
    ServiceCalls(Expand(node, reply, depth, <<>>, <<>>, 0).log)
        = CallsOfEach(node, PassingItems(node, reply))

ServiceEntryCount(node) == Cardinality(ToolEntries(node, SERVICE_ENTRY))

\* the backend log changes in expansions only, by at most k_per_node service
\* calls added at its end, and every new child shows at most the one call of
\* its own step beside those of its parent
CallsInExpansionOnly ==
    /\ ha_log' # ha_log => (pc = "expand" /\ IsPrefix(ha_log, ha_log'))
    /\ Len(ServiceCalls(ha_log')) - Len(ServiceCalls(ha_log)) <= k_per_node
    /\ (pc = "expand" /\ pc' \in {"expand", "rank"}) =>
          \A i \in (Len(candidates_next) + 1)..Len(candidates_next') :
              /\ IsPrefix(frontier[node_idx].transcript, candidates_next'[i].transcript)
              /\ ServiceEntryCount(candidates_next'[i])
                    <= ServiceEntryCount(frontier[node_idx]) + 1
    /\ (pc = "expand" /\ pc' = "returned") =>
          /\ answer_node' = frontier[node_idx]
          /\ answer_kind' = "finish"

\* C31 (service calls are made before scoring): the backend is called during
\* expansion only; expanding a branch executes every resolvable call-service
\* candidate of it, at most k_per_node calls for each branch of the frontier;
\* a call is never undone, and the branch that gives the final answer shows in
\* its transcript only the calls of its own lineage, one for each generation at
\* most, whatever calls were made on branches pruned since or earlier in the
\* expansion whose finish is returned.
ServiceCallsBeforeScoring ==
    /\ [](arch = "tot" /\ pc = "expand" =>
            \A reply \in planner_menu : ExecutesEveryCall(frontier[node_idx], reply))
    /\ [](arch = "tot" =>
            \A node \in LiveBranches \cup ({answer_node} \ {NoNode}) :
                /\ ServiceEntryCount(node) <= node.depth
                /\ ServiceEntryCount(node) <= Len(ServiceCalls(ha_log)))
    /\ [][arch = "tot" => CallsInExpansionOnly]_vars

\* a finish was returned for a branch that made one call, after the expansion
\* that returned it had made another
ServiceCallsBeforeScoringWitness ==
    /\ arch = "tot"
    /\ pc = "returned"
    /\ answer_kind = "finish"
    /\ Len(ServiceCalls(ha_log)) >= 2
    /\ ServiceEntryCount(answer_node) = 1
    /\ answer_node.did_service

ByTool(items, tools) == SelectSeq(items, LAMBDA it : it.tool \in tools)

OPERATIVE_TOOLS ==
    {"service_call_tool", "get_entities_details_tool", "get_entities_by_domain_tool"}

\* the candidates in the stated order, planner order within one kind of step
StatedOrder(items) ==
    ByTool(items, {"service_call_tool"}) \o ByTool(items, {"get_entities_details_tool"})
        \o ByTool(items, {"get_entities_by_domain_tool"}) \o ByTool(items, {"finish"})
        \o ByTool(items, {"ask_user"})
        \o SelectSeq(items, LAMBDA it : it.tool \notin OPERATIVE_TOOLS \cup {"finish", "ask_user"})

\* the guard notes the candidates of a reply leave on the branch node
GuardNotes(node, reply) ==
    FilterPlans(Take(PlansOf(_planner_call_with_timeout(reply)), k_per_node), {}, node, depth,
                [guarded |-> <<>>, filtered |-> <<>>]).guarded

\* expanding the node runs its passing candidates in the stated order
RunsInStatedOrder(node, reply) ==
    Expand(node, reply, depth, <<>>, <<>>, 0)
        = Actor(Acc(GuardNotes(node, reply), <<>>), node,
                StatedOrder(PassingItems(node, reply)), depth, 0)

\* an accepted finish returns after the operative candidates of the node were
\* all executed, each leaving its child, and no ask-user candidate was
OperativeBeforeFinish(node, reply) ==
    ByTool(PassingItems(node, reply), {"finish"}) # <<>> =>
        \E acc \in {Expand(node, reply, depth, <<>>, <<>>, 0)},
           work \in {Actor(Acc(GuardNotes(node, reply), <<>>), node,
                           ByTool(PassingItems(node, reply), OPERATIVE_TOOLS), depth, 0)} :
            /\ acc.status = "return"
            /\ acc.text = FinishAnswer(ByTool(PassingItems(node, reply), {"finish"})[1])
            /\ acc.log = work.log
            /\ acc.pool = work.pool
            /\ Len(acc.pool) = Len(GuardNotes(node, reply))
                                 + Len(ByTool(PassingItems(node, reply), OPERATIVE_TOOLS))
            /\ \A i \in 1..Len(acc.pool) : acc.pool[i].last_obs.kind # "ask"

\* C32 (execution order within one branch): the candidates of a branch that
\* pass the guard are executed in the order call-service, get-details,
\* list-by-domain, finish, ask-user, in planner order within one kind; so an
\* accepted finish returns only after every call-service, get-details and
\* list-by-domain candidate of the branch was executed, and an ask-user
\* candidate of the same reply is never processed.
ExecutionOrder ==
    (arch = "tot" /\ pc = "expand") =>
        \A reply \in planner_menu :
            /\ RunsInStatedOrder(frontier[node_idx], reply)
            /\ OperativeBeforeFinish(frontier[node_idx], reply)

\* the second round returned the finish that came after a question in the
\* reply, and no question was kept
ExecutionOrderWitness ==
    /\ planner_menu = MenuOrder
    /\ k_per_node = 2
    /\ pc = "returned"
    /\ answer_kind = "finish"
    /\ result = "All set."
    /\ depth = 2
    /\ candidates_next = <<>>
    /\ Len(ServiceCalls(ha_log)) = 1
    /\ answer_node.did_service

ProposedDetailsItems ==
    { it \in UNION { { r.items[i] : i \in 1..Len(r.items) } : r \in planner_menu } :
        it.valid /\ it.tool = "get_entities_details_tool" }

\* a branch whose flag did_details is up and whose last observation holds no state
BlindBranch(node) == node.did_details /\ node.last_obs.details = <<>>

\* executing the get-details step item on the branch node adds one child with
\* did_details up, whatever was read
DetailsAlwaysFlagged(node, item) ==
    \A fail_at \in 0..MaxFailAt :
        \E acc \in {DetailsStep(Acc(<<>>, <<>>), node, item, depth, fail_at)} :
            acc.status = "run" =>
                /\ Len(acc.pool) = 1
                /\ acc.pool[1].did_details
                /\ acc.pool[1].last_obs.kind = "details"
                /\ get_entities_details(all_states, item.entity_ids) = <<>> =>
                      BlindBranch(acc.pool[1])

\* with a status request, a branch that read no state is treated as one that did
BlindBranchCounts(node) ==
    (intent = "status" /\ BlindBranch(node)) =>
        /\ \A text \in {DOOR_LOCKED, ""} :
              _finish_guard(intent, node.did_details, node.did_service, FinishItem(text)) = ""
        /\ ProbeEligible(node)
        /\ StatusSentence(node.last_obs) = "Status read."

\* what the run does with such branches: the finish probe asks the planner
\* for them, and the fallback answers 'Status read.' for them
BlindBranchSteps ==
    /\ (pc = "probe" /\ intent = "status" /\ BlindBranch(frontier[node_idx])) =>
          planner_calls' = planner_calls + 1
    /\ (pc = "fallback" /\ pc' = "returned" /\ intent = "status"
           /\ BlindBranch(answer_node')) =>
          (result' = "Status read." /\ answer_kind' = "fallback")

\* C33 (did_details without a state read): every executed get-details
\* candidate sets did_details, also when the list of entity ids is empty or
\* the backend returns no entity; a later finish on that lineage passes the
\* status guard, the finish probe is issued for it, and the status fallback on
\* such a branch returns 'Status read.'.
DetailsFlagWithoutRead ==
    /\ [](arch = "tot" /\ pc = "expand" =>
            \A item \in ProposedDetailsItems :
                DetailsAlwaysFlagged(frontier[node_idx], item))
    /\ [](arch = "tot" => \A node \in LiveBranches : BlindBranchCounts(node))
    /\ [][arch = "tot" => BlindBranchSteps]_vars

\* no state was ever read, the finish probe was issued after the one round, and
\* the answer is 'Status read.'
DetailsFlagWithoutReadWitness ==
    /\ planner_menu = MenuBlind
    /\ pc = "returned"
    /\ answer_kind = "fallback"
    /\ result = "Status read."
    /\ BlindBranch(answer_node)
    /\ max_depth = 1
    /\ planner_calls = 2
    /\ \A i \in 1..Len(ha_log) :
          ha_log[i].op = "details" /\ get_entities_details(all_states, ha_log[i].entity_ids) = <<>>

\* the planner calls of r complete rounds at most: one expansion in the first
\* round, max(1, beam_size) in every later one, max(1, beam_size) probes in each
CallsOfRounds(r) ==
    IF r <= 0 THEN 0
    ELSE 1 + Max2(1, beam_size) + (r - 1) * 2 * Max2(1, beam_size)

\* rounds, branches and planner calls stay within the stated bounds
WithinBounds ==
    arch = "tot" =>
        /\ pc \in {"expand", "rank", "probe"} => depth <= max_depth
        /\ Len(frontier) <= Max2(1, beam_size)
        /\ (pc = "expand" /\ depth = 1) => Len(frontier) = 1
        /\ pc = "expand" => planner_calls <= CallsOfRounds(depth - 1) + (node_idx - 1)
        /\ pc = "probe" =>
              planner_calls <= CallsOfRounds(depth - 1) + Max2(1, beam_size) + (node_idx - 1)
        /\ planner_calls <= CallsOfRounds(max_depth)

\* one planner call for each expanded branch, at most one for each probed branch,
\* and a round without a child goes to the fallback with the frontier it had
StepsWithinBounds ==
    arch = "tot" =>
        /\ pc = "expand" => planner_calls' = planner_calls + 1
        /\ pc = "probe" => planner_calls' \in {planner_calls, planner_calls + 1}
        /\ pc \in {"rank", "fallback"} => planner_calls' = planner_calls
        /\ (pc = "rank" /\ candidates_next = <<>>) =>
              (pc' = "fallback" /\ frontier' = frontier)

TerminationBoundCounts == []WithinBounds /\ [][StepsWithinBounds]_vars

\* C34 (termination bound of ToT): in every run whose planner and backend
\* calls return, call_agent runs at most max_depth rounds, expands at most
\* max(1, beam_size) branches in a round (one in the first) with one planner
\* call for each, issues at most max(1, beam_size) finish probes in a round,
\* and then returns a string; a round without a child ends the loop and the
\* fallback is computed from the frontier before it.
TerminationBound ==
    /\ []WithinBounds
    /\ [][StepsWithinBounds]_vars
    /\ []((arch = "tot" /\ pc = "raised") => FailedCalls(ha_log) # <<>>)

\* every planner call returned the answer to its own prompt, or the sentinel
\* when its wait timed out
OwnReplyOrSentinel ==
    /\ Len(workers.used) <= Len(workers.calls)
    /\ \A i \in 1..Len(workers.used) :
          /\ workers.used[i] \in {AnswerTo(workers.calls[i].prompt), TIMEOUT_SENTINEL}
          /\ workers.calls[i].abandoned <=> workers.used[i] = TIMEOUT_SENTINEL

\* the worker of an abandoned call may finish at any later time; call_agent
\* does not see it
LateResultUnseen ==
    /\ IsPrefix(workers.used, workers'.used)
    /\ \A i \in 1..Len(workers.calls) :
          (workers.calls[i].abandoned /\ workers.calls[i].thread = "running"
              /\ workers'.calls[i].thread = "done") =>
             /\ workers'.used = workers.used
             /\ workers'.main = workers.main
             /\ workers'.ops = workers.ops

\* C35 (abandoned planner calls): after a planner call times out its worker
\* thread is not awaited and may finish later, beside the planner calls and
\* backend operations that follow; its late result is never consumed: the
\* reply used for branch b of round r is the reply to the prompt made for
\* (r, b) or the timeout sentinel, under every interleaving.
AbandonedPlannerCalls ==
    /\ [](arch = "tot_workers" => OwnReplyOrSentinel)
    /\ [][arch = "tot_workers" => LateResultUnseen]_vars

\* the first call timed out, backend work and a second call followed, the first
\* worker finished late and before the second, and the second call still
\* returned the answer to its own prompt
AbandonedPlannerCallsWitness ==
    /\ arch = "tot_workers"
    /\ Len(workers.used) >= 2
    /\ workers.calls[1].abandoned
    /\ workers.calls[1].thread = "done"
    /\ workers.done_order = <<1, 2>>
    /\ workers.used[1] = TIMEOUT_SENTINEL
    /\ workers.used[2] = AnswerTo(workers.calls[2].prompt)
    /\ workers.ops >= 1

\* the domains and services of the steps the planner gave
PlannedDomains == {cot.steps[i].domain : i \in 1..Len(cot.steps)} \ {""}
PlannedServices == {cot.steps[i].service : i \in 1..Len(cot.steps)} \ {""}

\* the domains the user text names, and the service of its on/off phrase
NamedDomains == {DomainHits(lower(user_text))[i] : i \in 1..Len(DomainHits(lower(user_text)))}
PhrasedServices ==
    IF _expected_on_off(user_text) = "on" THEN {"turn_on"}
    ELSE IF _expected_on_off(user_text) = "off" THEN {"turn_off"}
    ELSE {}

\* C36 (CoT service calls come from the plan or the user text): every service
\* call of CoT has a domain and a service that come from a step of the
\* planner's plan or from the user text (a domain it names, the on/off
\* polarity of its phrasing); when the planner gives no usable step and the
\* user text has no on/off polarity, no service call is made and the run
\* returns the clarifying question.
CotCallsFromPlanOrText ==
    arch = "cot" =>
        /\ \A i \in 1..Len(cot.log) :
              cot.log[i].op = "service" =>
                 /\ cot.log[i].domain
                       \in (IF cot.planned THEN PlannedDomains ELSE {}) \cup NamedDomains
                 /\ cot.log[i].service
                       \in (IF cot.planned THEN PlannedServices ELSE {}) \cup PhrasedServices
        /\ (cot.pc = "returned" /\ ~cot.planned /\ _expected_on_off(user_text) = ""
               /\ _infer_intent(user_text) = "action") =>
              (ServiceCalls(cot.log) = <<>> /\ cot.result = WHICH_EXACT_DEVICE)

\* with a planner that gives steps, every service call has the domain and the
\* service of a step or of the user text
CotPlannedCalls ==
    (arch = "cot" /\ cot.planned) =>
        \A i \in 1..Len(cot.log) :
            cot.log[i].op = "service" =>
                /\ cot.log[i].domain \in PlannedDomains \cup NamedDomains
                /\ cot.log[i].service \in PlannedServices \cup PhrasedServices

====
